---- MODULE Spec2Model ----
(***************************************************************************)
(* Model of the MRSI analysis scripts: the voxel coordinate rotator        *)
(* (1Rotate_Coord.py, 1Rotate_CoordTTTT.py) and the T1/T2 relaxometry      *)
(* fits (T1_plot_TI_var.py, T2_plot_TE_var.py).                            *)
(*                                                                         *)
(* Text is modelled as a sequence of tokens: a token is a maximal run of   *)
(* characters that the scripts never cut (a word, a numeral, or one of    *)
(* the separators " ", "\t", "\n", "_").                                   *)
(***************************************************************************)
EXTENDS Integers, Sequences, FiniteSets, TLC

VARIABLES
    \* ---- rotate_coord called directly (1Rotate_Coord.py:34-42)
    rcMode,        \* "point": one coordinate, "grid": the whole grid, "main": the script
    rcCoord0,      \* the coordinate first given
    rcCoord,       \* the coordinate after rcCount applications
    rcRotation,    \* the angle passed (0: none yet)
    rcCount,       \* number of applications so far
    rcRaised,      \* rotate_coord raised ValueError
    rcImage,       \* grid mode: the image of the whole grid
    \* ---- the rotator script, main() (1Rotate_Coord.py:44-113)
    pc,            \* position in main
    files,         \* the file system: path -> lines
    input_path,
    rotation,
    lines,
    output_lines,
    i,
    output_path,
    printed,       \* console messages, in order
    opened_w,      \* paths opened with mode 'w'
    n_writes,      \* number of writelines calls
    rotated_at,    \* the values of i at which a record was rotated
    outcome,       \* how main ended
    \* ---- the relaxometry scripts (T1_plot_TI_var.py, T2_plot_TE_var.py)
    script,        \* "T1" or "T2" ("none": not running)
    fpc,           \* position in the script
    amp_text,      \* the lines of the amplitude file on disk
    time_text,     \* the lines of the TI / TE file on disk
    amp_file,      \* path returned by the first dialog
    time_file,     \* path returned by the second dialog
    Amplitudes,
    TI,            \* TI of the T1 script, TE of the T2 script
    M0_fit,        \* M0_fit / M0_alpha
    T_fit,         \* T1_fit / T2_alpha
    alpha_fit,
    use_fixed_alpha, \* the except branch of the free fit was taken
    fallback_popt, \* popt of the curve_fit call made in the except branch
    M0_fixed,
    T_fixed,
    n_curve_fit,   \* number of curve_fit calls made
    reported,      \* the plots with the fit results were shown
    written,       \* output files written
    fit_outcome,   \* how the script ended
    \* ---- the heatmap scripts (unnamed/part_000, 3Intensity_from_excel.py)
    heat_script,   \* "part_000", "3Intensity", "round" (the rounding helpers
                   \* called directly) or "none"
    hpc,           \* position in the script
    sheet,         \* the data rows of the 'all' sheet of the workbook on disk
    sheet_has_col, \* the sheet has a column the intensity can be taken from
    excel_file,    \* path returned by the dialog
    vmin,
    vmax,
    user_vmin,     \* vmin and vmax as first assigned from the prompts
    user_vmax,
    df,            \* the rows with x, y, z and intensity
    has_values,
    actual_min,
    actual_max,
    z_slices,      \* the slices not plotted yet, ascending
    xs,
    ys,
    grids,         \* z -> intensity_grid of the slice
    plots,         \* z -> plot_data handed to sns.heatmap
    heat_printed,  \* console messages, in order
    heat_outcome,  \* how the script ended
    nice_x,        \* "round": the argument of the rounding helpers
    nice_out,      \* "round": <<round_up_nice(x), round_down_nice(x)>>
    \* ---- the spreadsheet assembler (2Sorting_Data_From_2txt_PC.py)
    xpc,           \* position in the script ("idle": not running)
    text1,         \* the text of the phantom measurement file on disk
    text2,         \* the text of the subject measurement file on disk
    file_path1,
    file_path2,
    headers,
    sorted_data1,
    sorted_data2,
    sel_set,
    filtered1,
    filtered2,
    excel_path,
    wb,            \* the workbook: sheet title -> (<<row, column>> -> cell value)
    saved,         \* wb.save(excel_path) has been called
    xl_printed,    \* console messages, in order
    xl_outcome,    \* how the script ended
    \* ---- DICOM renaming (T_renaming_dcm_files.py)
    dpc,           \* position in the script ("idle": not running)
    originals,     \* the files on disk when the script starts: path -> content
    fs,            \* the files on disk: path -> content
    dirs,          \* the directories on disk
    root_folder,   \* path returned by the folder dialog (<<>>: none)
    to_visit,      \* the folders os.walk has still to yield, in order
    visited,       \* the folders os.walk has yielded, in order
    current_path,
    pending,       \* the pairs of zip(dcm_files, new_names) not copied yet
    processed_folders,
    skipped_folders,
    created,       \* <<folder being processed, path>> for each path written
    dcm_printed,   \* console messages, in order
    dcm_outcome    \* how the script ended

rcVars == <<rcMode, rcCoord0, rcCoord, rcRotation, rcCount, rcRaised, rcImage>>
mainVars == <<pc, files, input_path, rotation, lines, output_lines, i,
              output_path, printed, opened_w, n_writes, rotated_at, outcome>>
fitVars == <<script, fpc, amp_text, time_text, amp_file, time_file, Amplitudes,
             TI, M0_fit, T_fit, alpha_fit, use_fixed_alpha, fallback_popt,
             M0_fixed, T_fixed, n_curve_fit, reported, written, fit_outcome>>
heatVars == <<heat_script, hpc, sheet, sheet_has_col, excel_file, vmin, vmax,
              user_vmin, user_vmax, df, has_values, actual_min, actual_max,
              z_slices, xs, ys, grids, plots, heat_printed, heat_outcome,
              nice_x, nice_out>>
sheetVars == <<xpc, text1, text2, file_path1, file_path2, headers, sorted_data1,
               sorted_data2, sel_set, filtered1, filtered2, excel_path, wb,
               saved, xl_printed, xl_outcome>>
dcmVars == <<dpc, originals, fs, dirs, root_folder, to_visit, visited,
             current_path, pending, processed_folders, skipped_folders, created,
             dcm_printed, dcm_outcome>>
restVars == <<heatVars, sheetVars, dcmVars>>
vars == <<rcVars, mainVars, fitVars, restVars>>

(***************************************************************************)
(* Bounds of the model.                                                    *)
(***************************************************************************)
MaxApply == 4      \* applications of rotate_coord to one coordinate
MaxLines == 4      \* lines of a rotator input file
MaxSamples == 3    \* values in a section of an amplitude file, or in a time file

(***************************************************************************)
(* 1Rotate_Coord.py:32  GRID_X, GRID_Y, GRID_Z = 32, 32, 8                 *)
(***************************************************************************)
GRID_X == 32
GRID_Y == 32
GRID_Z == 8

Grid == (0..(GRID_X - 1)) \X (0..(GRID_Y - 1)) \X (0..(GRID_Z - 1))

SupportedAngles == {90, 180, 270}

(***************************************************************************)
(* rotate_coord(x, y, z, rotation): <<"ok", new_x, new_y, new_z>>, or      *)
(* <<"ValueError">> when the angle is not supported.                       *)
(***************************************************************************)
\* 90 degrees with GRID_Y for GRID_Y - 1
rotate_coord_off_by_one(x, y, z, r) ==
    IF r = 90 THEN <<"ok", GRID_Y - y, x, z>>
    ELSE IF r = 180 THEN <<"ok", GRID_X - 1 - x, GRID_Y - 1 - y, z>>
    ELSE IF r = 270 THEN <<"ok", y, GRID_X - 1 - x, z>>
    ELSE <<"ValueError">>

\* 90 degrees with y written for x
rotate_coord_typo(x, y, z, r) ==
    IF r = 90 THEN <<"ok", GRID_Y - 1 - y, y, z>>
    ELSE IF r = 180 THEN <<"ok", GRID_X - 1 - x, GRID_Y - 1 - y, z>>
    ELSE IF r = 270 THEN <<"ok", y, GRID_X - 1 - x, z>>
    ELSE <<"ValueError">>

\* 180 degrees mirrors z as well
rotate_coord_flip_z(x, y, z, r) ==
    IF r = 90 THEN <<"ok", GRID_Y - 1 - y, x, z>>
    ELSE IF r = 180 THEN <<"ok", GRID_X - 1 - x, GRID_Y - 1 - y, GRID_Z - 1 - z>>
    ELSE IF r = 270 THEN <<"ok", y, GRID_X - 1 - x, z>>
    ELSE <<"ValueError">>

\* an unsupported angle returns the coordinate as it is
rotate_coord_no_raise(x, y, z, r) ==
    IF r = 90 THEN <<"ok", GRID_Y - 1 - y, x, z>>
    ELSE IF r = 180 THEN <<"ok", GRID_X - 1 - x, GRID_Y - 1 - y, z>>
    ELSE IF r = 270 THEN <<"ok", y, GRID_X - 1 - x, z>>
    ELSE <<"ok", x, y, z>>

rotate_coord(x, y, z, r) ==
    IF r = 90 THEN <<"ok", GRID_Y - 1 - y, x, z>>
    ELSE IF r = 180 THEN <<"ok", GRID_X - 1 - x, GRID_Y - 1 - y, z>>
    ELSE IF r = 270 THEN <<"ok", y, GRID_X - 1 - x, z>>
    ELSE <<"ValueError">>

(***************************************************************************)
(* Python text operations on token sequences.                              *)
(***************************************************************************)
Whitespace == {" ", "\t", "\n"}

RECURSIVE lstrip(_)
lstrip(s) == IF s # <<>> /\ Head(s) \in Whitespace THEN lstrip(Tail(s)) ELSE s

RECURSIVE rstrip(_)
rstrip(s) ==
    IF s # <<>> /\ s[Len(s)] \in Whitespace
    THEN rstrip(SubSeq(s, 1, Len(s) - 1))
    ELSE s

\* str.strip()
strip(s) == rstrip(lstrip(s))

\* str.startswith("Coord"): "Coord" is the only token that begins with these
\* characters
startswith_Coord(s) == s # <<>> /\ Head(s) = "Coord"

\* str.split(sep) with an explicit separator: always at least one piece
RECURSIVE split(_, _)
split(s, sep) ==
    IF \E k \in 1..Len(s) : s[k] = sep
    THEN LET k == CHOOSE k \in 1..Len(s) :
                      s[k] = sep /\ \A j \in 1..(k - 1) : s[j] # sep
         IN  <<SubSeq(s, 1, k - 1)>> \o split(SubSeq(s, k + 1, Len(s)), sep)
    ELSE <<s>>

\* sep.join(parts)
RECURSIVE join(_, _)
join(parts, sep) ==
    IF parts = <<>> THEN <<>>
    ELSE IF Len(parts) = 1 THEN parts[1]
    ELSE parts[1] \o <<sep>> \o join(Tail(parts), sep)

\* the decimal numerals str(n) produces, and the numerals with a leading zero
\* that int() also accepts
Decimal == [n \in (0 - GRID_X)..(2 * GRID_X) |-> ToString(n)]
LeadingZero == [t \in {"02"} |-> 2]

\* int(s): <<"ok", n>>, or <<"ValueError">>; int() ignores surrounding
\* whitespace
int(s) ==
    LET t == strip(s)
    IN  IF Len(t) # 1 THEN <<"ValueError">>
        ELSE IF \E n \in DOMAIN Decimal : Decimal[n] = t[1]
        THEN <<"ok", CHOOSE n \in DOMAIN Decimal : Decimal[n] = t[1]>>
        ELSE IF t[1] \in DOMAIN LeadingZero
        THEN <<"ok", LeadingZero[t[1]]>>
        ELSE <<"ValueError">>

\* f"{new_x}_{new_y}_{new_z}"
format_coord(c) == <<ToString(c[2]), "_", ToString(c[3]), "_", ToString(c[4])>>

\* file.readlines(): each line keeps its "\n"; the last line may have none
RECURSIVE readlines(_)
readlines(s) ==
    IF s = <<>> THEN <<>>
    ELSE IF \E k \in 1..Len(s) : s[k] = "\n"
    THEN LET k == CHOOSE k \in 1..Len(s) :
                      s[k] = "\n" /\ \A j \in 1..(k - 1) : s[j] # "\n"
         IN  <<SubSeq(s, 1, k)>> \o readlines(SubSeq(s, k + 1, Len(s)))
    ELSE <<s>>

\* file.writelines(ls): the lines one after the other, nothing added
RECURSIVE writelines(_)
writelines(ls) == IF ls = <<>> THEN <<>> ELSE Head(ls) \o writelines(Tail(ls))

(***************************************************************************)
(* The body of the try block of main (1Rotate_Coord.py:77-88): the rotated *)
(* data line <<"ok", rotated_line>>, or <<"Exception">> when the unpacking,*)
(* an int() or rotate_coord raises.                                        *)
(***************************************************************************)
try_rotate(data_line, r) ==
    LET parts == split(data_line, "\t")
        coord_str == parts[1]
        strs == split(strip(coord_str), "_")
    IN  IF Len(strs) # 3 THEN <<"Exception">>
        ELSE LET x == int(strs[1])
                 y == int(strs[2])
                 z == int(strs[3])
             IN  IF x[1] # "ok" \/ y[1] # "ok" \/ z[1] # "ok"
                 THEN <<"Exception">>
                 ELSE LET new == rotate_coord(x[2], y[2], z[2], r)
                      IN  IF new[1] # "ok" THEN <<"Exception">>
                          ELSE <<"ok", join([parts EXCEPT ![1] = format_coord(new)], "\t")>>

(***************************************************************************)
(* Inputs of the rotator: the files the user can select, and the answers   *)
(* the dialogs can give.                                                   *)
(***************************************************************************)
InPath == "in.txt"
OutPath == "out.txt"
Paths == {InPath, OutPath}
NoPath == ""

LinePool ==
    { <<"Coord", "\n">>,
      <<" ", "Coord", "\t", "X", "\n">>,
      <<"3", "_", "5", "_", "02", "\t", "A", "\t", "B", "\n">>,
      <<"x", "_", "5", "_", "2", "\t", "A", "\n">>,
      <<"1", "_", "0", "_", "0", "\t", "A", "\t", "\n">>,
      <<" ", "End", "\n">> }

LineSeqs == UNION {[1..n -> LinePool] : n \in 0..MaxLines}

\* the text of a file: its lines one after the other, the last "\n" left out
\* when the file does not end with a newline
FileText(ls, final_newline) ==
    LET t == writelines(ls)
    IN  IF final_newline \/ t = <<>> THEN t ELSE SubSeq(t, 1, Len(t) - 1)

InputTexts == {FileText(ls, nl) : ls \in LineSeqs, nl \in BOOLEAN}

\* simpledialog.askinteger(minvalue=90, maxvalue=270): <<>> when dismissed
\* (None), else <<n>> with 90 <= n <= 270
AskIntegerAnswers == {<<>>, <<90>>, <<135>>, <<180>>, <<270>>}

\* angles rotate_coord is called with directly
CallAngles == SupportedAngles \cup {0, 45, 360}

(***************************************************************************)
(* Initial states.                                                         *)
(***************************************************************************)
RcIdle ==
    /\ rcCoord0 = <<0, 0, 0>>
    /\ rcCoord = <<0, 0, 0>>
    /\ rcRotation = 0
    /\ rcCount = 0
    /\ rcRaised = FALSE
    /\ rcImage = {}

MainStart(text) ==
    /\ pc = IF rcMode = "main" THEN "select_input" ELSE "idle"
    /\ files = [p \in {InPath} |-> text]
    /\ input_path = NoPath
    /\ rotation = <<>>
    /\ lines = <<>>
    /\ output_lines = <<>>
    /\ i = 0
    /\ output_path = NoPath
    /\ printed = <<>>
    /\ opened_w = {}
    /\ n_writes = 0
    /\ rotated_at = {}
    /\ outcome = "running"

\* a relaxometry script before its first dialog ("none": no script runs)
FitStart(name, atext, ttext) ==
    /\ script = name
    /\ fpc = IF name = "none" THEN "idle" ELSE "select_amp"
    /\ amp_text = atext
    /\ time_text = ttext
    /\ amp_file = NoPath
    /\ time_file = NoPath
    /\ Amplitudes = <<>>
    /\ TI = <<>>
    /\ M0_fit = 0
    /\ T_fit = 0
    /\ alpha_fit = 0
    /\ use_fixed_alpha = FALSE
    /\ fallback_popt = <<>>
    /\ M0_fixed = 0
    /\ T_fixed = 0
    /\ n_curve_fit = 0
    /\ reported = FALSE
    /\ written = {}
    /\ fit_outcome = "running"

\* a heatmap script before its dialog ("none": no script runs; "round": the
\* rounding helpers are called directly with the argument x)
HeatStart(name, rows, has_col, x) ==
    /\ heat_script = name
    /\ hpc = IF name = "none" THEN "idle"
             ELSE IF name = "round" THEN "round" ELSE "select_excel"
    /\ sheet = rows
    /\ sheet_has_col = has_col
    /\ excel_file = NoPath
    /\ vmin = <<0>>
    /\ vmax = <<0>>
    /\ user_vmin = <<0>>
    /\ user_vmax = <<0>>
    /\ df = <<>>
    /\ has_values = FALSE
    /\ actual_min = <<0>>
    /\ actual_max = <<0>>
    /\ z_slices = <<>>
    /\ xs = <<>>
    /\ ys = <<>>
    /\ grids = <<>>
    /\ plots = <<>>
    /\ heat_printed = <<>>
    /\ heat_outcome = "running"
    /\ nice_x = x
    /\ nice_out = <<>>

HeatIdle == HeatStart("none", <<>>, FALSE, 0)

\* the spreadsheet assembler before its first dialog (running: it has been
\* started)
SheetStart(running, t1, t2) ==
    /\ xpc = IF running THEN "select_phantom" ELSE "idle"
    /\ text1 = t1
    /\ text2 = t2
    /\ file_path1 = NoPath
    /\ file_path2 = NoPath
    /\ headers = <<>>
    /\ sorted_data1 = <<>>
    /\ sorted_data2 = <<>>
    /\ sel_set = {}
    /\ filtered1 = <<>>
    /\ filtered2 = <<>>
    /\ excel_path = NoPath
    /\ wb = <<>>
    /\ saved = FALSE
    /\ xl_printed = <<>>
    /\ xl_outcome = "running"

SheetIdle == SheetStart(FALSE, <<>>, <<>>)

\* the scripts that are not running
\* T_renaming_dcm_files.py:43-54: the state before the folder dialog, with the
\* files and directories on disk
DcmStart(running, disk, folders) ==
    /\ dpc = IF running THEN "select_root" ELSE "idle"
    /\ originals = disk
    /\ fs = disk
    /\ dirs = folders
    /\ root_folder = <<>>
    /\ to_visit = <<>>
    /\ visited = <<>>
    /\ current_path = <<>>
    /\ pending = <<>>
    /\ processed_folders = <<>>
    /\ skipped_folders = <<>>
    /\ created = {}
    /\ dcm_printed = <<>>
    /\ dcm_outcome = "running"

DcmIdle == DcmStart(FALSE, <<>>, {})

RestIdle == HeatIdle /\ SheetIdle /\ DcmIdle

InitRot ==
    /\ FitStart("none", <<>>, <<>>)
    /\ RestIdle
    /\ \/ /\ rcMode = "point"
          /\ rcCoord0 \in Grid
          /\ rcCoord = rcCoord0
          /\ rcRotation = 0
          /\ rcCount = 0
          /\ rcRaised = FALSE
          /\ rcImage = {}
          /\ MainStart(<<>>)
       \/ /\ rcMode = "grid"
          /\ RcIdle
          /\ MainStart(<<>>)
       \/ /\ rcMode = "main"
          /\ RcIdle
          /\ \E text \in InputTexts : MainStart(text)

(***************************************************************************)
(* rotate_coord applied to one coordinate, again and again with the same   *)
(* angle.                                                                  *)
(***************************************************************************)
ApplyRotate ==
    /\ rcMode = "point"
    /\ ~rcRaised
    /\ rcCount < MaxApply
    /\ \E r \in CallAngles :
          /\ rcCount = 0 \/ r = rcRotation
          /\ LET new == rotate_coord(rcCoord[1], rcCoord[2], rcCoord[3], r)
             IN  /\ rcRotation' = r
                 /\ rcCount' = rcCount + 1
                 /\ rcRaised' = (new[1] # "ok")
                 /\ rcCoord' = IF new[1] = "ok" THEN <<new[2], new[3], new[4]>>
                                                ELSE rcCoord
    /\ UNCHANGED <<rcMode, rcCoord0, rcImage, mainVars, fitVars, restVars>>

\* rotate_coord applied to every coordinate of the grid
RotateGrid ==
    /\ rcMode = "grid"
    /\ rcCount = 0
    /\ \E r \in SupportedAngles :
          /\ rcRotation' = r
          /\ rcImage' = {rotate_coord(c[1], c[2], c[3], r) : c \in Grid}
    /\ rcCount' = 1
    /\ UNCHANGED <<rcMode, rcCoord0, rcCoord, rcRaised, mainVars, fitVars, restVars>>

(***************************************************************************)
(* main() of the rotator, one action per step.                             *)
(***************************************************************************)
\* 1Rotate_Coord.py:50-56: the input file dialog
SelectInput ==
    /\ pc = "select_input"
    /\ \E p \in {NoPath} \cup DOMAIN files :
          /\ input_path' = p
          /\ IF p = NoPath
             THEN /\ printed' = Append(printed, <<"No input file selected.">>)
                  /\ pc' = "done"
                  /\ outcome' = "no_input"
             ELSE /\ pc' = "ask_rotation"
                  /\ UNCHANGED <<printed, outcome>>
    /\ UNCHANGED <<files, rotation, lines, output_lines, i, output_path,
                   opened_w, n_writes, rotated_at, rcVars, fitVars, restVars>>

\* 1Rotate_Coord.py:59-62: the angle prompt and its check
AskRotation ==
    /\ pc = "ask_rotation"
    /\ \E r \in AskIntegerAnswers :
          /\ rotation' = r
          /\ IF r = <<>> \/ r[1] \notin {90, 180, 270}
             THEN /\ printed' = Append(printed, <<"Invalid rotation angle.">>)
                  /\ pc' = "done"
                  /\ outcome' = "invalid_angle"
             ELSE /\ pc' = "read"
                  /\ UNCHANGED <<printed, outcome>>
    /\ UNCHANGED <<files, input_path, lines, output_lines, i, output_path,
                   opened_w, n_writes, rotated_at, rcVars, fitVars, restVars>>

\* 1Rotate_Coord.py:65-69: read the input file (mode 'r')
ReadLines ==
    /\ pc = "read"
    /\ lines' = readlines(files[input_path])
    /\ output_lines' = <<>>
    /\ i' = 0
    /\ pc' = "loop"
    /\ UNCHANGED <<files, input_path, rotation, output_path, printed,
                   opened_w, n_writes, rotated_at, outcome, rcVars, fitVars, restVars>>

\* 1Rotate_Coord.py:70-98: one iteration of the while loop; lines[i] of the
\* code is lines[i + 1] here
LoopStep ==
    /\ pc = "loop"
    /\ i < Len(lines)
    /\ IF startswith_Coord(strip(lines[i + 1]))
       THEN IF i + 3 > Len(lines)
            THEN \* lines[i + 1] or lines[i + 2] raises IndexError, uncaught
                 /\ pc' = "done"
                 /\ outcome' = "IndexError"
                 /\ UNCHANGED <<output_lines, i, printed, rotated_at>>
            ELSE LET header_line == strip(lines[i + 1])
                     data_line == strip(lines[i + 2])
                     end_line == strip(lines[i + 3])
                     res == try_rotate(data_line, rotation[1])
                 IN  /\ IF res[1] = "ok"
                        THEN /\ output_lines' = output_lines \o
                                    << header_line \o <<"\n">>,
                                       res[2] \o <<"\n">>,
                                       end_line \o <<"\n">> >>
                             /\ rotated_at' = rotated_at \cup {i}
                             /\ UNCHANGED printed
                        ELSE /\ printed' = Append(printed,
                                    <<"Error processing line", i + 1>>)
                             /\ output_lines' = output_lines \o
                                    <<lines[i + 1], lines[i + 2], lines[i + 3]>>
                             /\ UNCHANGED rotated_at
                     /\ i' = i + 3
                     /\ UNCHANGED <<pc, outcome>>
       ELSE /\ output_lines' = Append(output_lines, lines[i + 1])
            /\ i' = i + 1
            /\ UNCHANGED <<pc, outcome, printed, rotated_at>>
    /\ UNCHANGED <<files, input_path, rotation, lines, output_path,
                   opened_w, n_writes, rcVars, fitVars, restVars>>

\* 1Rotate_Coord.py:101-113: the save dialog and the write (mode 'w')
SaveOutput ==
    /\ pc = "loop"
    /\ i >= Len(lines)
    /\ \E p \in {NoPath} \cup Paths :
          /\ output_path' = p
          /\ IF p = NoPath
             THEN /\ printed' = Append(printed, <<"No output file selected.">>)
                  /\ outcome' = "no_output"
                  /\ UNCHANGED <<files, opened_w, n_writes>>
             ELSE /\ opened_w' = opened_w \cup {p}
                  /\ files' = [q \in DOMAIN files \cup {p} |->
                                  IF q = p THEN writelines(output_lines)
                                           ELSE files[q]]
                  /\ n_writes' = n_writes + 1
                  /\ printed' = Append(printed, <<"Rotation complete.">>)
                  /\ outcome' = "saved"
    /\ pc' = "done"
    /\ UNCHANGED <<input_path, rotation, lines, output_lines, i, rotated_at,
                   rcVars, fitVars, restVars>>

NextRot ==
    \/ ApplyRotate
    \/ RotateGrid
    \/ SelectInput
    \/ AskRotation
    \/ ReadLines
    \/ LoopStep
    \/ SaveOutput

SpecRot == InitRot /\ [][NextRot]_vars

(***************************************************************************)
(* The relaxometry scripts.                                                *)
(*                                                                         *)
(* Numbers are integers: times are counted in units of 1e-6 (the lower     *)
(* bound of the time constant), alpha in tenths.  A line of an input file  *)
(* is a record: kind is what the line starts with, vals the numbers on it. *)
(***************************************************************************)
T_LOWER == 1           \* 1e-6,  T1_plot_TI_var.py:143, T2_plot_TE_var.py:88
ALPHA_ONE == 10        \* 1.0,   T1_plot_TI_var.py:142, T2_plot_TE_var.py:86
ALPHA_UPPER == 15      \* 1.5,   T1_plot_TI_var.py:143, T2_plot_TE_var.py:89
M0_FACTOR == 10        \* M0_guess * 10
T_FACTOR == 100        \* TI.max() * 100

Line(k, v) == [kind |-> k, vals |-> v]

\* extract_signed_amplitudes_jmrui, the loop over the lines
\* (T1_plot_TI_var.py:48-81): <<amps, phases>>
RECURSIVE scan_t1(_, _, _, _, _)
scan_t1(ls, inside_amp, inside_phase, amps, phases) ==
    IF ls = <<>> THEN <<amps, phases>>
    ELSE LET line == Head(ls)
             rest == Tail(ls)
         IN  IF line.kind = "blank"
             THEN scan_t1(rest, inside_amp, inside_phase, amps, phases)
             ELSE IF line.kind = "Amplitudes"
             THEN scan_t1(rest, TRUE, inside_phase, amps, phases)
             ELSE IF inside_amp /\ line.kind = "Standard deviation of Amplitudes"
             THEN scan_t1(rest, FALSE, inside_phase, amps, phases)
             ELSE LET amps2 == IF inside_amp THEN amps \o line.vals ELSE amps
                  IN  IF line.kind = "Phases"
                      THEN scan_t1(rest, inside_amp, TRUE, amps2, phases)
                      ELSE IF inside_phase /\ line.kind = "Standard deviation of Phases"
                      THEN scan_t1(rest, inside_amp, FALSE, amps2, phases)
                      ELSE scan_t1(rest, inside_amp, inside_phase, amps2,
                                   IF inside_phase THEN phases \o line.vals
                                                   ELSE phases)

Min(a, b) == IF a <= b THEN a ELSE b

\* extract_signed_amplitudes_jmrui (T1_plot_TI_var.py:47-93):
\* <<"ok", signed amplitudes>> or <<"ValueError">>
extract_signed_amplitudes_jmrui(ls) ==
    LET r == scan_t1(ls, FALSE, FALSE, <<>>, <<>>)
        amps == r[1]
        phases == r[2]
        n == Min(Len(amps), Len(phases))
    IN  IF amps = <<>> THEN <<"ValueError">>
        ELSE IF phases = <<>> THEN <<"ok", amps>>
        ELSE <<"ok", [k \in 1..n |-> IF phases[k] >= 0 THEN amps[k]
                                                       ELSE 0 - amps[k]]>>

\* extract_amplitudes_jmrui (T2_plot_TE_var.py:37-54)
RECURSIVE extract_amplitudes_jmrui(_, _, _)
extract_amplitudes_jmrui(ls, inside, amps) ==
    IF ls = <<>> THEN amps
    ELSE LET line == Head(ls)
         IN  IF line.kind = "Amplitudes"
             THEN extract_amplitudes_jmrui(Tail(ls), TRUE, amps)
             ELSE IF inside
             THEN IF line.kind = "Standard deviation of Amplitudes"
                  THEN amps
                  ELSE extract_amplitudes_jmrui(Tail(ls), inside, amps \o line.vals)
             ELSE extract_amplitudes_jmrui(Tail(ls), inside, amps)

\* float(line.strip()) of each line, a line that is not one number left out
RECURSIVE floats_of_lines(_)
floats_of_lines(ls) ==
    IF ls = <<>> THEN <<>>
    ELSE (IF Len(Head(ls).vals) = 1 THEN Head(ls).vals ELSE <<>>)
             \o floats_of_lines(Tail(ls))

\* load_ti_values (T1_plot_TI_var.py:101-112): the first line is skipped;
\* <<"ok", vals>> or <<"ValueError">>
load_ti_values(ls) ==
    LET vals == floats_of_lines(IF ls = <<>> THEN <<>> ELSE Tail(ls))
    IN  IF vals = <<>> THEN <<"ValueError">> ELSE <<"ok", vals>>

\* the TE loop (T2_plot_TE_var.py:58-67): every line is tried
load_te_values(ls) == floats_of_lines(ls)

Abs(a) == IF a < 0 THEN 0 - a ELSE a

\* np.max of a non-empty array
np_max(a) == CHOOSE m \in {a[k] : k \in 1..Len(a)} : \A k \in 1..Len(a) : a[k] <= m

\* np.median of a non-empty array (the values are multiples of 4, so the
\* mean of the two middle ones is an integer)
np_median(a) ==
    LET srt == SortSeq(a, LAMBDA x, y : x < y)
        n == Len(a)
    IN  IF n % 2 = 1 THEN srt[(n + 1) \div 2]
        ELSE (srt[n \div 2] + srt[n \div 2 + 1]) \div 2

\* M0_guess: T1_plot_TI_var.py:136 takes the absolute values,
\* T2_plot_TE_var.py:84 does not
M0_guess(name, amps) ==
    IF name = "T1" THEN np_max([k \in 1..Len(amps) |-> Abs(amps[k])])
    ELSE np_max(amps)

\* T1_guess / T2_guess (T1_plot_TI_var.py:137, T2_plot_TE_var.py:85)
T_guess(times) == np_median(times)

\* alpha bounded by 2.0
upper_wide(name, amps, times) ==
    <<M0_guess(name, amps) * M0_FACTOR, np_max(times) * T_FACTOR, 2 * ALPHA_ONE>>

\* p0 and the bounds of the free fit (T1_plot_TI_var.py:142-143,
\* T2_plot_TE_var.py:87-89)
p0(name, amps, times) == <<M0_guess(name, amps), T_guess(times), ALPHA_ONE>>
lower == <<0, T_LOWER, 0>>
upper(name, amps, times) ==
    <<M0_guess(name, amps) * M0_FACTOR, np_max(times) * T_FACTOR, ALPHA_UPPER>>

\* the first two components: p0 and bounds of the alpha = 1 model
\* (T1_plot_TI_var.py:152-153, 163-164, T2_plot_TE_var.py:110-111)
Two(v) == <<v[1], v[2]>>

(***************************************************************************)
(* scipy.optimize.curve_fit with bounds, as the scripts call it: the set   *)
(* of its possible outcomes.  It raises ValueError when a lower bound is   *)
(* not below its upper bound or p0 lies outside the bounds, it may raise   *)
(* RuntimeError (no convergence), and what it returns lies within the      *)
(* bounds.                                                                 *)
(***************************************************************************)
Feasible(start, lo, hi) ==
    \A k \in 1..Len(start) : lo[k] < hi[k] /\ lo[k] <= start[k] /\ start[k] <= hi[k]

\* the estimates tried: the lower corner, the start and the upper corner of
\* the box of the bounds
Estimates(start, lo, hi) == {lo, start, hi}

curve_fit(start, lo, hi) ==
    {<<"raise">>} \cup
    (IF Feasible(start, lo, hi) THEN {<<"ok", popt>> : popt \in Estimates(start, lo, hi)}
                                ELSE {})

(***************************************************************************)
(* Inputs of the relaxometry scripts.                                      *)
(***************************************************************************)
AmpVals == {0 - 1, 0, 2}
PhaseVals == {0 - 90, 45}
TimeVals == {0, 4}

SeqsUpTo(S, n) == UNION {[1..k -> S] : k \in 0..n}

\* a jMRUI result file with its Amplitudes and Phases sections; no Phases
\* section when ph is empty
AmpText(a, ph) ==
    <<Line("text", <<>>), Line("blank", <<>>), Line("Amplitudes", <<>>)>>
    \o (IF a = <<>> THEN <<>> ELSE <<Line("values", a)>>)
    \o <<Line("Standard deviation of Amplitudes", <<>>), Line("values", <<1>>)>>
    \o (IF ph = <<>> THEN <<>>
        ELSE <<Line("Phases", <<>>), Line("values", ph),
               Line("Standard deviation of Phases", <<>>), Line("values", <<1>>)>>)

\* a header line, then one value per line
TimeText(t) == <<Line("text", <<>>)>> \o [k \in 1..Len(t) |-> Line("values", <<t[k]>>)]

AmpTexts == {AmpText(a, ph) : a \in SeqsUpTo(AmpVals, MaxSamples),
                              ph \in SeqsUpTo(PhaseVals, MaxSamples)}
TimeTexts == {TimeText(t) : t \in SeqsUpTo(TimeVals, MaxSamples)}

InitFit ==
    /\ rcMode = "none"
    /\ RcIdle
    /\ MainStart(<<>>)
    /\ RestIdle
    /\ \E name \in {"T1", "T2"}, atext \in AmpTexts, ttext \in TimeTexts :
          FitStart(name, atext, ttext)

(***************************************************************************)
(* The scripts, one action per step.                                       *)
(***************************************************************************)
\* the script stops with an uncaught exception
Abort(exception) ==
    /\ fit_outcome' = exception
    /\ fpc' = "done"

\* load_txt_file for the amplitude file (T1_plot_TI_var.py:30-41,
\* T2_plot_TE_var.py:24-34)
SelectAmpFile ==
    /\ fpc = "select_amp"
    /\ \E path \in {NoPath, "amp.txt"} :
          /\ amp_file' = path
          /\ IF path = NoPath THEN Abort("FileNotFoundError")
             ELSE fpc' = "select_time" /\ UNCHANGED fit_outcome
    /\ UNCHANGED <<script, amp_text, time_text, time_file, Amplitudes, TI,
                   M0_fit, T_fit, alpha_fit, use_fixed_alpha, fallback_popt,
                   M0_fixed, T_fixed, n_curve_fit, reported, written,
                   rcVars, mainVars, restVars>>

\* load_txt_file for the TI / TE file (T1_plot_TI_var.py:42,
\* T2_plot_TE_var.py:35)
SelectTimeFile ==
    /\ fpc = "select_time"
    /\ \E path \in {NoPath, "time.txt"} :
          /\ time_file' = path
          /\ IF path = NoPath THEN Abort("FileNotFoundError")
             ELSE fpc' = "parse_amp" /\ UNCHANGED fit_outcome
    /\ UNCHANGED <<script, amp_text, time_text, amp_file, Amplitudes, TI,
                   M0_fit, T_fit, alpha_fit, use_fixed_alpha, fallback_popt,
                   M0_fixed, T_fixed, n_curve_fit, reported, written,
                   rcVars, mainVars, restVars>>

\* T1_plot_TI_var.py:96, T2_plot_TE_var.py:56
ParseAmplitudes ==
    /\ fpc = "parse_amp"
    /\ IF script = "T1"
       THEN LET r == extract_signed_amplitudes_jmrui(amp_text)
            IN  IF r[1] = "ok"
                THEN /\ Amplitudes' = r[2]
                     /\ fpc' = "parse_time"
                     /\ UNCHANGED fit_outcome
                ELSE /\ Abort("ValueError: no amplitudes")
                     /\ UNCHANGED Amplitudes
       ELSE /\ Amplitudes' = extract_amplitudes_jmrui(amp_text, FALSE, <<>>)
            /\ fpc' = "parse_time"
            /\ UNCHANGED fit_outcome
    /\ UNCHANGED <<script, amp_text, time_text, amp_file, time_file, TI,
                   M0_fit, T_fit, alpha_fit, use_fixed_alpha, fallback_popt,
                   M0_fixed, T_fixed, n_curve_fit, reported, written,
                   rcVars, mainVars, restVars>>

\* T1_plot_TI_var.py:115, T2_plot_TE_var.py:58-67
ParseTimes ==
    /\ fpc = "parse_time"
    /\ IF script = "T1"
       THEN LET r == load_ti_values(time_text)
            IN  IF r[1] = "ok"
                THEN /\ TI' = r[2]
                     /\ fpc' = "check"
                     /\ UNCHANGED fit_outcome
                ELSE /\ Abort("ValueError: no TI values")
                     /\ UNCHANGED TI
       ELSE /\ TI' = load_te_values(time_text)
            /\ fpc' = "check"
            /\ UNCHANGED fit_outcome
    /\ UNCHANGED <<script, amp_text, time_text, amp_file, time_file, Amplitudes,
                   M0_fit, T_fit, alpha_fit, use_fixed_alpha, fallback_popt,
                   M0_fixed, T_fixed, n_curve_fit, reported, written,
                   rcVars, mainVars, restVars>>

\* the consistency check (T1_plot_TI_var.py:120-121, T2_plot_TE_var.py:69-70)
CheckLengths ==
    /\ fpc = "check"
    /\ IF Len(TI) # Len(Amplitudes) THEN Abort("ValueError: mismatch")
       ELSE fpc' = "fit_free" /\ UNCHANGED fit_outcome
    /\ UNCHANGED <<script, amp_text, time_text, amp_file, time_file, Amplitudes,
                   TI, M0_fit, T_fit, alpha_fit, use_fixed_alpha, fallback_popt,
                   M0_fixed, T_fixed, n_curve_fit, reported, written,
                   rcVars, mainVars, restVars>>

\* the free fit and its except branch (T1_plot_TI_var.py:136-158,
\* T2_plot_TE_var.py:84-105)
FitFree ==
    /\ fpc = "fit_free"
    /\ IF Amplitudes = <<>>
       THEN \* np.max of an empty array raises (T2_plot_TE_var.py:84)
            /\ Abort("ValueError: empty array")
            /\ UNCHANGED <<M0_fit, T_fit, alpha_fit, use_fixed_alpha,
                           fallback_popt, n_curve_fit>>
       ELSE LET start == p0(script, Amplitudes, TI)
                hi == upper(script, Amplitudes, TI)
            IN  \E free \in curve_fit(start, lower, hi) :
                  IF /\ free[1] = "ok"
                     /\ script = "T2" => (0 <= free[2][3] /\ free[2][3] <= ALPHA_UPPER)
                  THEN /\ M0_fit' = free[2][1]
                       /\ T_fit' = free[2][2]
                       /\ alpha_fit' = free[2][3]
                       /\ n_curve_fit' = n_curve_fit + 1
                       /\ fpc' = "fit_fixed"
                       /\ UNCHANGED <<use_fixed_alpha, fallback_popt, fit_outcome>>
                  ELSE IF script = "T1"
                  THEN \E reduced \in curve_fit(Two(start), Two(lower), Two(hi)) :
                         /\ n_curve_fit' = n_curve_fit + 2
                         /\ use_fixed_alpha' = TRUE
                         /\ alpha_fit' = ALPHA_ONE
                         /\ IF reduced[1] = "ok"
                            THEN /\ fallback_popt' = reduced[2]
                                 /\ M0_fit' = reduced[2][1]
                                 /\ T_fit' = reduced[2][2]
                                 /\ fpc' = "fit_fixed"
                                 /\ UNCHANGED fit_outcome
                            ELSE \* raised inside the except branch: uncaught
                                 /\ Abort("curve_fit raised")
                                 /\ UNCHANGED <<fallback_popt, M0_fit, T_fit>>
                  ELSE /\ n_curve_fit' = n_curve_fit + 1
                       /\ use_fixed_alpha' = TRUE
                       /\ M0_fit' = start[1]
                       /\ T_fit' = start[2]
                       /\ alpha_fit' = ALPHA_ONE
                       /\ fpc' = "fit_fixed"
                       /\ UNCHANGED <<fallback_popt, fit_outcome>>
    /\ UNCHANGED <<script, amp_text, time_text, amp_file, time_file, Amplitudes,
                   TI, M0_fixed, T_fixed, reported, written, rcVars, mainVars, restVars>>

\* the alpha = 1 comparison fit, outside any try (T1_plot_TI_var.py:161-168,
\* T2_plot_TE_var.py:110-116).  The solver is deterministic: called again
\* with the arguments of the except branch it returns what it returned there.
FitFixed ==
    /\ fpc = "fit_fixed"
    /\ LET start == Two(p0(script, Amplitudes, TI))
           hi == Two(upper(script, Amplitudes, TI))
       IN  \E fixed \in (IF fallback_popt # <<>> THEN {<<"ok", fallback_popt>>}
                         ELSE curve_fit(start, Two(lower), hi)) :
             IF fixed[1] = "ok"
             THEN /\ M0_fixed' = fixed[2][1]
                  /\ T_fixed' = fixed[2][2]
                  /\ fpc' = "plot"
                  /\ UNCHANGED fit_outcome
             ELSE /\ Abort("curve_fit raised")
                  /\ UNCHANGED <<M0_fixed, T_fixed>>
    /\ n_curve_fit' = n_curve_fit + 1
    /\ UNCHANGED <<script, amp_text, time_text, amp_file, time_file, Amplitudes,
                   TI, M0_fit, T_fit, alpha_fit, use_fixed_alpha, fallback_popt,
                   reported, written, rcVars, mainVars, restVars>>

\* the figures with the fit results (T1_plot_TI_var.py:173-222,
\* T2_plot_TE_var.py:121-150)
Plot ==
    /\ fpc = "plot"
    /\ reported' = TRUE
    /\ fpc' = "save"
    /\ UNCHANGED <<script, amp_text, time_text, amp_file, time_file, Amplitudes,
                   TI, M0_fit, T_fit, alpha_fit, use_fixed_alpha, fallback_popt,
                   M0_fixed, T_fixed, n_curve_fit, written, fit_outcome,
                   rcVars, mainVars, restVars>>

\* the files the export writes (T1_plot_TI_var.py:248-264,
\* T2_plot_TE_var.py:174-234)
OutputFiles(name) ==
    IF name = "T1"
    THEN {".xlsx", "_alpha_free.png", "_alpha_1.png", "_combined.png"}
    ELSE {".xlsx", "_plot_alpha.png", "_plot_fixed.png", "_plot_combined.png"}

\* the optional export (T1_plot_TI_var.py:227-265, T2_plot_TE_var.py:156-239)
SaveResults ==
    /\ fpc = "save"
    /\ \E answer \in {"no", "yes, dialog dismissed", "yes, path chosen"} :
          written' = IF answer = "yes, path chosen" THEN OutputFiles(script)
                                                    ELSE written
    /\ fit_outcome' = "finished"
    /\ fpc' = "done"
    /\ UNCHANGED <<script, amp_text, time_text, amp_file, time_file, Amplitudes,
                   TI, M0_fit, T_fit, alpha_fit, use_fixed_alpha, fallback_popt,
                   M0_fixed, T_fixed, n_curve_fit, reported, rcVars, mainVars, restVars>>

NextFit ==
    \/ SelectAmpFile
    \/ SelectTimeFile
    \/ ParseAmplitudes
    \/ ParseTimes
    \/ CheckLengths
    \/ FitFree
    \/ FitFixed
    \/ Plot
    \/ SaveResults

SpecFit == InitFit /\ [][NextFit]_vars

(***************************************************************************)
(* Claims about the relaxometry scripts, checked under SpecFit.            *)
(***************************************************************************)

\* C1: in both scripts, when the free fit fails, the result reported for the
\* free variant is that of the reduced model fitted with alpha fixed at 1.0:
\* alpha is 1.0 and the scale and time constant are the estimates of the
\* reduced-model fit.
C1_FallbackIsReducedFit ==
    (reported /\ use_fixed_alpha)
        => /\ alpha_fit = ALPHA_ONE
           /\ M0_fit = M0_fixed
           /\ T_fit = T_fixed

\* the samples in the Amplitudes section of the amplitude file, and the
\* values of the time file
SourceAmplitudes == extract_amplitudes_jmrui(amp_text, FALSE, <<>>)
SourceTimes == floats_of_lines(time_text)

\* C2: in both scripts, when the number of timing values differs from the
\* number of amplitude samples in the amplitude file, the run ends with a
\* fatal error before any fit is attempted and before any file is written.
C2_MismatchIsFatal ==
    Len(SourceTimes) # Len(SourceAmplitudes)
        => /\ fpc \notin {"fit_free", "fit_fixed", "plot", "save"}
           /\ fpc = "done" => fit_outcome \in {"FileNotFoundError",
                                               "ValueError: no amplitudes",
                                               "ValueError: no TI values",
                                               "ValueError: mismatch"}
           /\ n_curve_fit = 0
           /\ ~reported
           /\ written = {}

\* C3: a solver failure is never fatal: a run that has called the solver
\* reaches the reporting step, whichever of its calls fail.
C3_SolverFailureNotFatal ==
    (fpc = "done" /\ n_curve_fit > 0)
        => (reported /\ fit_outcome = "finished")

\* C4: in every fit result reported, alpha lies in [0, 1.5], the scale in
\* [0, 10 * scale guess] and the time constant in [1e-6, 100 * max timing];
\* on the fallback path alpha is exactly 1.0.
C4_ReportedWithinBounds ==
    reported
        => /\ 0 <= alpha_fit /\ alpha_fit <= ALPHA_UPPER
           /\ 0 <= M0_fit /\ M0_fit <= M0_FACTOR * M0_guess(script, Amplitudes)
           /\ T_LOWER <= T_fit /\ T_fit <= T_FACTOR * np_max(TI)
           /\ use_fixed_alpha => alpha_fit = ALPHA_ONE

C4_Witness ==
    /\ reported
    /\ script = "T2"
    /\ use_fixed_alpha
    /\ alpha_fit = ALPHA_ONE
    /\ M0_fit = 2
    /\ T_fit = 2

(***************************************************************************)
(* Claims about the rotator, checked under SpecRot.                        *)
(***************************************************************************)

\* C5: for every coordinate of the 32x32x8 grid, rotate_coord applied four
\* times in succession with rotation 90 returns the coordinate it started
\* from.
C5_FourQuarterTurns ==
    (rcMode = "point" /\ rcRotation = 90 /\ rcCount = 4)
        => (~rcRaised /\ rcCoord = rcCoord0)

C5_Witness ==
    /\ rcMode = "point"
    /\ rcRotation = 90
    /\ rcCount = 4
    /\ rcCoord0 = <<31, 0, 7>>
    /\ rcCoord = rcCoord0

\* C6: for each supported angle rotate_coord maps the grid into itself (for
\* 90: 0 <= new_x < GRID_Y and 0 <= new_y < GRID_X) and no two distinct
\* coordinates of the grid have the same image, so the image of the grid is
\* the whole grid.
C6_RotationBijection ==
    /\ (rcMode = "point" /\ rcCount >= 1 /\ rcRotation \in SupportedAngles)
          => /\ ~rcRaised
             /\ rcCoord \in Grid
             /\ rcRotation = 90 => /\ 0 <= rcCoord[1] /\ rcCoord[1] < GRID_Y
                                   /\ 0 <= rcCoord[2] /\ rcCoord[2] < GRID_X
    /\ (rcMode = "grid" /\ rcCount = 1)
          => /\ \A c \in rcImage : c[1] = "ok" /\ <<c[2], c[3], c[4]>> \in Grid
             /\ Cardinality(rcImage) = Cardinality(Grid)

C6_Witness ==
    /\ rcMode = "grid"
    /\ rcCount = 1
    /\ rcRotation = 270
    /\ <<"ok", 0, 31, 0>> \in rcImage

\* the third coordinate of a data line, as int() reads it
z_of(line) ==
    int(split(strip(split(strip(line), "\t")[1]), "_")[3])

\* C7: rotation leaves z unchanged: rotate_coord returns the z it was given,
\* and the z of every rotated record, in the output list and in the file
\* written, is the z of the input record.
C7_ZUnchanged ==
    /\ (rcMode = "point" /\ rcCount >= 1 /\ ~rcRaised)
          => rcCoord[3] = rcCoord0[3]
    /\ \A h \in rotated_at :
          /\ z_of(output_lines[h + 2]) = z_of(lines[h + 2])
          /\ outcome = "saved"
                => z_of(readlines(files[output_path])[h + 2]) = z_of(lines[h + 2])

C7_Witness ==
    /\ outcome = "saved"
    /\ rotation = <<180>>
    /\ rotated_at # {}
    /\ \A h \in rotated_at :
          z_of(readlines(files[output_path])[h + 2]) = <<"ok", 2>>

\* the angle prompt has been answered
AngleAnswered ==
    /\ rcMode = "main"
    /\ pc \notin {"select_input", "ask_rotation"}
    /\ outcome # "no_input"

\* C8: an angle other than 90, 180, 270 is fatal: rotate_coord raises and
\* returns no coordinate, and a run given such an angle, or none, ends
\* without rotating a record and without writing a file.
C8_UnsupportedAngleFatal ==
    /\ (rcMode = "point" /\ rcCount >= 1 /\ rcRotation \notin SupportedAngles)
          => (rcRaised /\ rcCoord = rcCoord0)
    /\ (AngleAnswered /\ (rotation = <<>> \/ rotation[1] \notin SupportedAngles))
          => /\ pc = "done"
             /\ outcome = "invalid_angle"
             /\ lines = <<>>
             /\ output_lines = <<>>
             /\ rotated_at = {}
             /\ n_writes = 0
             /\ opened_w = {}
             /\ DOMAIN files = {InPath}

C8_Witness ==
    /\ AngleAnswered
    /\ rotation = <<135>>
    /\ outcome = "invalid_angle"

\* the values of i at which the scan of ls, started at i, finds a block
RECURSIVE BlockStarts(_, _)
BlockStarts(ls, k) ==
    IF k >= Len(ls) THEN {}
    ELSE IF startswith_Coord(strip(ls[k + 1]))
    THEN {k} \cup BlockStarts(ls, k + 3)
    ELSE BlockStarts(ls, k + 1)

\* a block whose data line does not begin with three integers
Malformed(ls, h, r) ==
    /\ h + 2 <= Len(ls)
    /\ try_rotate(strip(ls[h + 2]), r)[1] # "ok"

\* the lines of the block that starts at h
BlockEnd(ls, h) == IF h + 3 <= Len(ls) THEN h + 3 ELSE Len(ls)

\* C9: every malformed voxel block is passed through to the output
\* unchanged, an error naming its line is reported, and processing goes on
\* (the run reaches the save step).
C9_MalformedPassedThrough ==
    (AngleAnswered /\ pc = "done" /\ outcome # "invalid_angle")
        => \A h \in BlockStarts(lines, 0) :
              Malformed(lines, h, rotation[1])
                 => /\ outcome \in {"saved", "no_output"}
                    /\ Len(output_lines) >= BlockEnd(lines, h)
                    /\ \A k \in (h + 1)..BlockEnd(lines, h) :
                          output_lines[k] = lines[k]
                    /\ \E m \in 1..Len(printed) :
                          printed[m] = <<"Error processing line", h + 1>>

\* C10: the output file is written once, and only after every input line has
\* been processed; the input file is never opened for writing; no abort path
\* writes a file.
C10_WriteOnceAtEnd ==
    /\ n_writes <= 1
    /\ n_writes = 1 => /\ outcome = "saved"
                       /\ i >= Len(lines)
                       /\ Len(output_lines) = Len(lines)
    /\ InPath \notin opened_w
    /\ outcome \in {"no_input", "invalid_angle", "no_output", "IndexError"}
          => /\ n_writes = 0
             /\ opened_w = {}
             /\ DOMAIN files = {InPath}

(***************************************************************************)
(* The heatmap scripts (unnamed/part_000, 3Intensity_from_excel.py).       *)
(*                                                                         *)
(* A float is <<n>>, n hundredths, or <<>>, NaN.  Every comparison with    *)
(* NaN is false.                                                           *)
(***************************************************************************)
MaxRows == 2       \* data rows of the 'all' sheet

NaN == <<>>
isna(a) == a = NaN
lt(a, b) == a # NaN /\ b # NaN /\ a[1] < b[1]
gt(a, b) == lt(b, a)

\* the numerals typed at the prompts, as float() reads them
FloatLiteral ==
    ("nan" :> NaN) @@ ("200" :> <<20000>>) @@ ("-500" :> <<0 - 50000>>)

\* float(s): <<"ok", value>>, or <<"ValueError">>
float(s) ==
    IF s \in DOMAIN FloatLiteral THEN <<"ok", FloatLiteral[s]>>
    ELSE <<"ValueError">>

\* what the user can type at a prompt ("": just Enter)
Answers == {"", "abc", "nan", "200", "-500"}

DEFAULT_VMIN == 0       \* 0.0
DEFAULT_VMAX == 1000    \* 10.0

\* the prompt for one limit: <<"ok", value, messages>>, or <<"ValueError">>.
\* part_000:82-95 falls back to the default on a ValueError;
\* 3Intensity_from_excel.py:65-66 does not catch it.
ask_limit(name, answer, default, message) ==
    IF answer = "" THEN <<"ok", <<default>>, <<>>>>
    ELSE LET f == float(answer)
         IN  IF f[1] = "ok" THEN <<"ok", f[2], <<>>>>
             ELSE IF name = "part_000" THEN <<"ok", <<default>>, <<message>>>>
             ELSE <<"ValueError">>

RECURSIVE Digits(_)
Digits(n) == IF n < 10 THEN 1 ELSE 1 + Digits(n \div 10)

RECURSIVE Pow10(_)
Pow10(k) == IF k = 0 THEN 1 ELSE 10 * Pow10(k - 1)

\* mag = 10 ** math.floor(math.log10(ax)), in hundredths, for ax = h hundredths
mag(h) == Pow10(Digits(h) - 1)

\* ax / mag is a float division.  For ax >= 1 mag is an int and the quotient
\* is on the same side of every integer as the exact quotient.  For ax < 1 mag
\* is the float nearest to 0.1 or 0.01 and the binary64 quotient of an exact
\* multiple can miss the integer: 0.07 / 0.01 = 7.000000000000001,
\* 0.3 / 0.1 = 2.9999999999999996, 0.6 / 0.1 = 5.999999999999999,
\* 0.7 / 0.1 = 6.999999999999999.  The sign of that error, by ax in hundredths.
QuotientError == (7 :> 1) @@ (30 :> 0 - 1) @@ (60 :> 0 - 1) @@ (70 :> 0 - 1)

quotient_error(h) == IF h \in DOMAIN QuotientError THEN QuotientError[h] ELSE 0

\* math.ceil(ax / mag)
ceil_quotient(h) ==
    IF h % mag(h) # 0 THEN h \div mag(h) + 1
    ELSE IF quotient_error(h) > 0 THEN h \div mag(h) + 1
    ELSE h \div mag(h)

\* math.floor(ax / mag)
floor_quotient(h) ==
    IF h % mag(h) = 0 /\ quotient_error(h) < 0 THEN h \div mag(h) - 1
    ELSE h \div mag(h)

\* part_000:179-187, x = h hundredths
round_up_nice(h) ==
    IF h = 0 THEN 0
    ELSE LET sign == IF h > 0 THEN 1 ELSE 0 - 1
             ax == Abs(h)
         IN  sign * (ceil_quotient(ax) * mag(ax))

\* part_000:189-197
round_down_nice(h) ==
    IF h = 0 THEN 0
    ELSE LET sign == IF h > 0 THEN 1 ELSE 0 - 1
             ax == Abs(h)
         IN  sign * (floor_quotient(ax) * mag(ax))

(***************************************************************************)
(* The workbook: a data row of the 'all' sheet is its coordinate cell (a   *)
(* token sequence) and its cell in the intensity column (a number, or NaN  *)
(* for a blank or non-numeric cell: pd.to_numeric(errors='coerce')).       *)
(***************************************************************************)
CoordPool ==
    { <<"0", "_", "0", "_", "0">>,
      <<"2", "_", "1", "_", "0">>,
      <<"2", "_", "0", "_", "1">>,
      <<"x", "_", "0", "_", "0">> }

CellPool == {NaN, <<0 - 12300>>, <<7>>, <<12300>>}

RowPool == [coord : CoordPool, value : CellPool]

SheetRows == SeqsUpTo(RowPool, MaxRows)

Max(a, b) == IF a >= b THEN a ELSE b

SetMin(S) == CHOOSE m \in S : \A e \in S : m <= e
SetMax(S) == CHOOSE m \in S : \A e \in S : e <= m

\* np.arange(lo, hi + 1)
arange(lo, hi) == [k \in 1..(hi - lo + 1) |-> lo + k - 1]

Range(f) == {f[k] : k \in DOMAIN f}

\* sorted(values)
RECURSIVE sorted(_)
sorted(S) == IF S = {} THEN <<>> ELSE <<SetMin(S)>> \o sorted(S \ {SetMin(S)})

\* the pieces of the coordinate cells: str.split('_', expand=True)
coord_parts(name, rows) ==
    [k \in 1..Len(rows) |->
        split(IF name = "part_000" THEN strip(rows[k].coord) ELSE rows[k].coord,
              "_")]

\* the number of columns of coords
coord_columns(parts) ==
    IF parts = <<>> THEN 0 ELSE SetMax({Len(parts[k]) : k \in 1..Len(parts)})

\* part_000:106-119 and 139-168, 3Intensity_from_excel.py:78-88: the rows
\* with x, y, z and intensity, <<"ok", df>>, or the exception raised
load_rows(name, rows, has_col) ==
    LET parts == coord_parts(name, rows)
        ncol == coord_columns(parts)
        ok(k) == /\ Len(parts[k]) >= 3
                 /\ \A j \in 1..3 : int(parts[k][j])[1] = "ok"
    IN  IF ncol < 3
        THEN IF name = "part_000" THEN <<"RuntimeError">> ELSE <<"KeyError">>
        ELSE IF \E k \in 1..Len(rows) : ~ok(k) THEN <<"ValueError">>
        ELSE IF ~has_col
        THEN IF name = "part_000" THEN <<"RuntimeError">> ELSE <<"KeyError">>
        ELSE <<"ok", [k \in 1..Len(rows) |->
                        [x |-> int(parts[k][1])[2],
                         y |-> int(parts[k][2])[2],
                         z |-> int(parts[k][3])[2],
                         intensity |-> rows[k].value]]>>

\* df[df['z'] == z]
slice_of(d, z) == {d[k] : k \in {j \in 1..Len(d) : d[j].z = z}}

\* the row numbers of the slice
slice_rows(d, z) == {j \in 1..Len(d) : d[j].z = z}

\* slice_df.pivot(index='y', columns='x', values='intensity'): the grid over
\* the y and x of the slice, <<"ok", grid>>, or <<"ValueError">> when two rows
\* of the slice have the same (y, x)
pivot(d, z) ==
    LET R == slice_rows(d, z)
    IN  IF \E j, k \in R : j # k /\ d[j].x = d[k].x /\ d[j].y = d[k].y
        THEN <<"ValueError">>
        ELSE <<"ok",
               [c \in {d[k].y : k \in R} \X {d[k].x : k \in R} |->
                   IF \E k \in R : d[k].y = c[1] /\ d[k].x = c[2]
                   THEN (CHOOSE r \in slice_of(d, z) : r.y = c[1] /\ r.x = c[2]).intensity
                   ELSE NaN]>>

\* the slice is indexed by its own x and y only
reindex_none(grid, index, columns) == grid

\* grid.reindex(index=ys, columns=xs).sort_index(axis=0).sort_index(axis=1)
reindex(grid, index, columns) ==
    [c \in Range(index) \X Range(columns) |->
        IF c \in DOMAIN grid THEN grid[c] ELSE NaN]

\* values outside the window are clipped to it
mask_clipped(grid, lo, hi) ==
    [c \in DOMAIN grid |->
        IF lt(grid[c], lo) THEN lo ELSE IF gt(grid[c], hi) THEN hi ELSE grid[c]]

\* out_of_range_mask and intensity_grid.mask(out_of_range_mask)
mask(grid, lo, hi) ==
    [c \in DOMAIN grid |->
        IF lt(grid[c], lo) \/ gt(grid[c], hi) \/ isna(grid[c])
        THEN NaN ELSE grid[c]]

\* the arguments the rounding helpers are called with directly, in hundredths
NiceArgs == (0 - 13000)..13000

InitHeat ==
    /\ rcMode = "none"
    /\ RcIdle
    /\ MainStart(<<>>)
    /\ FitStart("none", <<>>, <<>>)
    /\ SheetIdle
    /\ DcmIdle
    /\ \/ \E name \in {"part_000", "3Intensity"}, rows \in SheetRows,
             has_col \in BOOLEAN : HeatStart(name, rows, has_col, 0)
       \/ \E x \in NiceArgs : HeatStart("round", <<>>, FALSE, x)

\* the script stops with an uncaught exception
HeatAbort(exception) ==
    /\ heat_outcome' = exception
    /\ hpc' = "done"

\* round_up_nice(x) and round_down_nice(x) called directly
RoundNice ==
    /\ hpc = "round"
    /\ nice_out' = <<round_up_nice(nice_x), round_down_nice(nice_x)>>
    /\ hpc' = "done"
    /\ UNCHANGED <<heat_script, sheet, sheet_has_col, excel_file, vmin, vmax,
                   user_vmin, user_vmax, df, has_values, actual_min, actual_max,
                   z_slices, xs, ys, grids, plots, heat_printed, heat_outcome,
                   nice_x, rcVars, mainVars, fitVars, sheetVars, dcmVars>>

\* part_000:71-80, 3Intensity_from_excel.py:53-62: the file dialog
SelectExcel ==
    /\ hpc = "select_excel"
    /\ \E path \in {NoPath, "book.xlsx"} :
          /\ excel_file' = path
          /\ IF path = NoPath
             THEN /\ heat_printed' = Append(heat_printed, "No Excel file selected.")
                  /\ heat_outcome' = "exit"
                  /\ hpc' = "done"
             ELSE /\ hpc' = "ask_limits"
                  /\ UNCHANGED <<heat_printed, heat_outcome>>
    /\ UNCHANGED <<heat_script, sheet, sheet_has_col, vmin, vmax, user_vmin,
                   user_vmax, df, has_values, actual_min, actual_max, z_slices,
                   xs, ys, grids, plots, nice_x, nice_out,
                   rcVars, mainVars, fitVars, sheetVars, dcmVars>>

\* part_000:82-95, 3Intensity_from_excel.py:65-66: the two prompts
AskLimits ==
    /\ hpc = "ask_limits"
    /\ \E a \in Answers, b \in Answers :
          LET lo == ask_limit(heat_script, a, DEFAULT_VMIN,
                              "Invalid minimum value entered; using 0.")
              hi == ask_limit(heat_script, b, DEFAULT_VMAX,
                              "Invalid maximum value entered; using 10.")
          IN  IF lo[1] # "ok" \/ hi[1] # "ok"
              THEN /\ HeatAbort("ValueError")
                   /\ UNCHANGED <<vmin, vmax, user_vmin, user_vmax, heat_printed>>
              ELSE /\ vmin' = lo[2]
                   /\ vmax' = hi[2]
                   /\ user_vmin' = lo[2]
                   /\ user_vmax' = hi[2]
                   /\ heat_printed' = heat_printed \o lo[3] \o hi[3]
                   /\ hpc' = "read"
                   /\ UNCHANGED heat_outcome
    /\ UNCHANGED <<heat_script, sheet, sheet_has_col, excel_file, df, has_values,
                   actual_min, actual_max, z_slices, xs, ys, grids, plots,
                   nice_x, nice_out, rcVars, mainVars, fitVars, sheetVars, dcmVars>>

\* part_000:98-168, 3Intensity_from_excel.py:69-88: the sheet is read, the
\* coordinates are split and the intensity column is chosen
ReadSheet ==
    /\ hpc = "read"
    /\ LET r == load_rows(heat_script, sheet, sheet_has_col)
       IN  IF r[1] = "ok"
           THEN /\ df' = r[2]
                /\ hpc' = IF heat_script = "part_000" THEN "limits" ELSE "axes"
                /\ UNCHANGED heat_outcome
           ELSE /\ HeatAbort(r[1])
                /\ UNCHANGED df
    /\ UNCHANGED <<heat_script, sheet, sheet_has_col, excel_file, vmin, vmax,
                   user_vmin, user_vmax, has_values, actual_min, actual_max,
                   z_slices, xs, ys, grids, plots, heat_printed, nice_x, nice_out,
                   rcVars, mainVars, fitVars, sheetVars, dcmVars>>

\* the non-NaN intensities, in hundredths
Values(d) == {d[k].intensity[1] : k \in {j \in 1..Len(d) : ~isna(d[j].intensity)}}

\* vmax is adjusted when it is below the data
\* the rounded maximum is taken as it is
adjust_vmax_unclamped(hi, vals) ==
    IF vals # {} /\ gt(hi, <<SetMax(vals)>>)
    THEN <<<<round_up_nice(SetMax(vals))>>, <<"Adjusting colorbar vmax">>>>
    ELSE <<hi, <<>>>>

adjust_vmax_tighter(hi, vals) ==
    IF vals # {} /\ lt(hi, <<SetMax(vals)>>)
    THEN <<<<Max(round_up_nice(SetMax(vals)), SetMax(vals))>>, <<"Adjusting colorbar vmax">>>>
    ELSE <<hi, <<>>>>

\* part_000:199-206: <<vmax, messages>>
adjust_vmax(hi, vals) ==
    IF vals # {} /\ gt(hi, <<SetMax(vals)>>)
    THEN <<<<Max(round_up_nice(SetMax(vals)), SetMax(vals))>>, <<"Adjusting colorbar vmax">>>>
    ELSE <<hi, <<>>>>

\* part_000:208-216: <<vmin, messages>>
adjust_vmin(lo, vals) ==
    IF vals # {} /\ lt(lo, <<SetMin(vals)>>)
    THEN <<<<Min(round_down_nice(SetMin(vals)), SetMin(vals))>>, <<"Adjusting colorbar vmin">>>>
    ELSE <<lo, <<>>>>

\* part_000:218-221: <<vmin, vmax, messages>>
swap(lo, hi) ==
    IF gt(lo, hi) THEN <<hi, lo, <<"Warning: vmin > vmax after adjustments. Swapping.">>>>
    ELSE <<lo, hi, <<>>>>

\* part_000:170-223: the window is fitted to the data
AdjustLimits ==
    /\ hpc = "limits"
    /\ LET vals == Values(df)
           hi == adjust_vmax(vmax, vals)
           lo == adjust_vmin(vmin, vals)
           w == swap(lo[1], hi[1])
       IN  /\ has_values' = (vals # {})
           /\ actual_min' = IF vals # {} THEN <<SetMin(vals)>> ELSE <<0>>
           /\ actual_max' = IF vals # {} THEN <<SetMax(vals)>> ELSE <<0>>
           /\ vmin' = w[1]
           /\ vmax' = w[2]
           /\ heat_printed' = heat_printed \o hi[2] \o lo[2] \o w[3]
                                 \o <<"Final color limits">>
    /\ hpc' = "axes"
    /\ UNCHANGED <<heat_script, sheet, sheet_has_col, excel_file, user_vmin,
                   user_vmax, df, z_slices, xs, ys, grids, plots, heat_outcome,
                   nice_x, nice_out, rcVars, mainVars, fitVars, sheetVars, dcmVars>>

\* the x range is taken from the first row only
axis_first(d, field) == arange(d[1][field], d[1][field])

\* np.arange(df[field].min(), df[field].max() + 1)
axis(d, field) ==
    arange(SetMin({d[k][field] : k \in 1..Len(d)}),
           SetMax({d[k][field] : k \in 1..Len(d)}))

\* part_000:225-238, 3Intensity_from_excel.py:90-102: the slices and the axes
Axes ==
    /\ hpc = "axes"
    /\ z_slices' = sorted({df[k].z : k \in 1..Len(df)})
    /\ xs' = axis(df, "x")
    /\ ys' = axis(df, "y")
    /\ hpc' = "plot"
    /\ UNCHANGED <<heat_script, sheet, sheet_has_col, excel_file, vmin, vmax,
                   user_vmin, user_vmax, df, has_values, actual_min, actual_max,
                   grids, plots, heat_printed, heat_outcome, nice_x, nice_out,
                   rcVars, mainVars, fitVars, sheetVars, dcmVars>>

\* part_000:241-274, 3Intensity_from_excel.py:105-138: one turn of the loop
PlotSlice ==
    /\ hpc = "plot"
    /\ LET z == Head(z_slices)
           g == pivot(df, z)
       IN  IF g[1] = "ok"
           THEN LET intensity_grid == reindex(g[2], ys, xs)
                    plot_data == mask(intensity_grid, vmin, vmax)
                IN  /\ grids' = (z :> intensity_grid) @@ grids
                    /\ plots' = (z :> plot_data) @@ plots
                    /\ z_slices' = Tail(z_slices)
                    /\ IF Tail(z_slices) = <<>>
                       THEN hpc' = "done" /\ heat_outcome' = "finished"
                       ELSE UNCHANGED <<hpc, heat_outcome>>
           ELSE /\ HeatAbort(g[1])
                /\ UNCHANGED <<grids, plots, z_slices>>
    /\ UNCHANGED <<heat_script, sheet, sheet_has_col, excel_file, vmin, vmax,
                   user_vmin, user_vmax, df, has_values, actual_min, actual_max,
                   xs, ys, heat_printed, nice_x, nice_out,
                   rcVars, mainVars, fitVars, sheetVars, dcmVars>>

NextHeat ==
    \/ RoundNice
    \/ SelectExcel
    \/ AskLimits
    \/ ReadSheet
    \/ AdjustLimits
    \/ Axes
    \/ PlotSlice

SpecHeat == InitHeat /\ [][NextHeat]_vars

(***************************************************************************)
(* Claims about the heatmap scripts, checked under SpecHeat.               *)
(***************************************************************************)
\* the records of slice z at column x, row y
RecordsAt(z, y, x) ==
    {k \in 1..Len(df) : df[k].z = z /\ df[k].y = y /\ df[k].x = x}

\* the rectangular span of all records
Span ==
    (SetMin({df[k].y : k \in 1..Len(df)})..SetMax({df[k].y : k \in 1..Len(df)}))
        \X (SetMin({df[k].x : k \in 1..Len(df)})..SetMax({df[k].x : k \in 1..Len(df)}))

\* C11: the dense grid built for each z-slice has exactly one cell for every
\* (x,y) of the rectangular span of all records, so every slice has the same
\* shape; a cell holds the source intensity when the slice has a record at
\* that (x,y) and is no-data otherwise.  When no two records share a
\* coordinate, every slice of the data gets its grid.
C11_GridReconstruction ==
    /\ \A z \in DOMAIN grids :
          /\ DOMAIN grids[z] = Span
          /\ \A c \in Span :
                IF RecordsAt(z, c[1], c[2]) = {} THEN grids[z][c] = NaN
                ELSE \A k \in RecordsAt(z, c[1], c[2]) : grids[z][c] = df[k].intensity
    /\ heat_outcome = "finished" => DOMAIN grids = {df[k].z : k \in 1..Len(df)}
    /\ (hpc = "done" /\ xs # <<>>
           /\ \A j, k \in 1..Len(df) :
                 (df[j].x = df[k].x /\ df[j].y = df[k].y /\ df[j].z = df[k].z) => j = k)
          => heat_outcome = "finished"

\* two slices have been built, each with a cell that holds data and a cell
\* of the span that has no record
C11_Witness ==
    /\ Cardinality(DOMAIN grids) = 2
    /\ \A z \in DOMAIN grids :
          /\ \E c \in DOMAIN grids[z] : ~isna(grids[z][c])
          /\ \E c \in DOMAIN grids[z] : RecordsAt(z, c[1], c[2]) = {}

\* the source intensity of a cell is absent: no record, or a record without
\* a number
Absent(z, c) == \A k \in RecordsAt(z, c[1], c[2]) : isna(df[k].intensity)

\* the source intensity of a cell lies strictly outside the window
Outside(z, c) ==
    \E k \in RecordsAt(z, c[1], c[2]) :
        lt(df[k].intensity, vmin) \/ gt(df[k].intensity, vmax)

\* C12: in the plotted grid of both scripts a cell is no-data (masked) if and
\* only if its source intensity is absent or lies strictly outside the final
\* [vmin,vmax] window; every other cell carries its source value unchanged:
\* an out-of-window value is never replaced by vmin or vmax.
C12_MaskedNeverClipped ==
    \A z \in DOMAIN plots : \A c \in DOMAIN plots[z] :
        /\ isna(plots[z][c]) <=> (Absent(z, c) \/ Outside(z, c))
        /\ ~isna(plots[z][c]) =>
              \E k \in RecordsAt(z, c[1], c[2]) : plots[z][c] = df[k].intensity

\* a slice is plotted in which one value is masked for being outside the
\* window and another is shown
C12_Witness ==
    \E z \in DOMAIN plots : \E c, d \in DOMAIN plots[z] :
        /\ Outside(z, c) /\ ~Absent(z, c) /\ isna(plots[z][c])
        /\ ~isna(plots[z][d])

\* part_000 has printed its final colour limits: the window is settled
Limited == \E k \in 1..Len(heat_printed) : heat_printed[k] = "Final color limits"

Swapped ==
    \E k \in 1..Len(heat_printed) :
        heat_printed[k] = "Warning: vmin > vmax after adjustments. Swapping."

\* C13 as stated: a requested bound that is tighter than the data is widened
\* to the rounded extent of the data (vmax below the actual maximum becomes
\* round_up_nice(actual maximum), vmin above the actual minimum becomes
\* round_down_nice(actual minimum)), and a bound that is not tighter than the
\* data is left as the user entered it.
C13_WidenedWhenTighter ==
    (Limited /\ has_values /\ ~Swapped) =>
        /\ vmax = IF lt(user_vmax, actual_max)
                  THEN <<round_up_nice(actual_max[1])>> ELSE user_vmax
        /\ vmin = IF gt(user_vmin, actual_min)
                  THEN <<round_down_nice(actual_min[1])>> ELSE user_vmin

\* C13 as amended: a requested bound that is looser than the data is pulled
\* in to the rounded extent of the data: when the data hold a number and the
\* requested vmax is above the actual maximum, vmax becomes
\* round_up_nice(actual maximum), or the actual maximum itself when the
\* rounded value is below it; when the requested vmin is below the actual
\* minimum, vmin becomes round_down_nice(actual minimum), or the actual
\* minimum itself when the rounded value is above it; a bound that is not
\* looser than the data is left as the user entered it.  The two bounds so
\* obtained are exchanged when the first exceeds the second.
C13_AdjustedWhenLooser ==
    Limited =>
        LET hi == IF has_values /\ gt(user_vmax, actual_max)
                  THEN <<Max(round_up_nice(actual_max[1]), actual_max[1])>>
                  ELSE user_vmax
            lo == IF has_values /\ lt(user_vmin, actual_min)
                  THEN <<Min(round_down_nice(actual_min[1]), actual_min[1])>>
                  ELSE user_vmin
        IN  <<vmin, vmax>> = IF gt(lo, hi) THEN <<hi, lo>> ELSE <<lo, hi>>

\* the requested vmax was above the data and has been pulled in to the
\* rounded maximum, the requested vmin was not below the data and is kept
C13_Witness ==
    /\ Limited /\ has_values /\ ~Swapped
    /\ gt(user_vmax, actual_max)
    /\ vmax = <<round_up_nice(actual_max[1])>>
    /\ vmax # user_vmax
    /\ vmax # actual_max
    /\ ~lt(user_vmin, actual_min)
    /\ vmin = user_vmin

\* C14: for every positive x, with m = 10^floor(log10 x), round_up_nice(x) is
\* the smallest multiple of m that is >= x and round_down_nice(x) is the
\* largest multiple of m that is <= x; both return 0 for x = 0.
C14_RoundOutward ==
    (heat_script = "round" /\ hpc = "done" /\ nice_x >= 0) =>
        IF nice_x = 0 THEN nice_out = <<0, 0>>
        ELSE LET m == Pow10(Digits(nice_x) - 1)
             IN  /\ nice_out[1] % m = 0
                 /\ nice_out[1] >= nice_x
                 /\ nice_out[1] - m < nice_x
                 /\ nice_out[2] % m = 0
                 /\ nice_out[2] <= nice_x
                 /\ nice_out[2] + m > nice_x

\* a <= b, false when either is NaN
le(a, b) == a # NaN /\ b # NaN /\ a[1] <= b[1]

\* C15: after the two bounds are adjusted, if vmin exceeds vmax the two are
\* swapped and a warning is printed; hence for every user input and every
\* data set the final window satisfies vmin <= vmax.
C15_FinalWindowOrdered == Limited => le(vmin, vmax)

(***************************************************************************)
(* The spreadsheet assembler (2Sorting_Data_From_2txt_PC.py).              *)
(*                                                                         *)
(* A measurement file is text: a preamble, "###", and a block whose first  *)
(* line is the tab-separated header and whose other lines are the records. *)
(* A cell value is a token sequence.                                       *)
(***************************************************************************)
MaxEntries == 3    \* record lines of the two measurement files together

\* the header the column letters written into the formulas fit, and another
StandardHeaders ==
    <<"Coord", "Metabolite", "Area", "H4", "H5", "LDamping", "H7", "H8", "H9",
      "H10", "H11">>
ShortHeaders == <<"Coord", "Metabolite", "LDamping", "Area">>
Layouts == {StandardHeaders, ShortHeaders}

\* the records a file can hold: coordinate and metabolite
RecordPool ==
    { [coord |-> <<"0", "_", "0", "_", "1">>, met |-> "Main"],
      [coord |-> <<"2", "_", "0", "_", "0">>, met |-> "Main"],
      [coord |-> <<"2", "_", "0", "_", "0">>, met |-> "NAA"],
      [coord |-> <<"x", "_", "0", "_", "0">>, met |-> "Main"] }

\* the value of a record under a header
FieldOf(rec, header) ==
    IF header = "Coord" THEN rec.coord
    ELSE IF header = "Metabolite" THEN <<rec.met>>
    ELSE IF header = "Area" THEN (IF rec.met = "Main" THEN <<"12.5">> ELSE <<"7.5">>)
    ELSE IF header = "LDamping" THEN <<"3.1">>
    ELSE <<"0.0">>

HeaderLine(layout) == join([k \in 1..Len(layout) |-> <<layout[k]>>], "\t")

RecordLine(layout, rec) ==
    join([k \in 1..Len(layout) |-> FieldOf(rec, layout[k])], "\t")

MeasurementText(layout, recs) ==
    <<"jMRUI", "\n", "###", "\n">>
        \o join(<<HeaderLine(layout)>>
                    \o [k \in 1..Len(recs) |-> RecordLine(layout, recs[k])], "\n")
        \o <<"\n">>

\* the records of the two files
RecordLists ==
    {p \in SeqsUpTo(RecordPool, MaxEntries) \X SeqsUpTo(RecordPool, MaxEntries) :
        Len(p[1]) + Len(p[2]) <= MaxEntries}

\* x, y, z = map(int, coord.split('_')): <<"ok", x, y, z>>, or <<"Exception">>
coord_ints(coord) ==
    LET strs == split(coord, "_")
    IN  IF Len(strs) # 3 THEN <<"Exception">>
        ELSE IF \E j \in 1..3 : int(strs[j])[1] # "ok" THEN <<"Exception">>
        ELSE <<"ok", int(strs[1])[2], int(strs[2])[2], int(strs[3])[2]>>

\* dict(zip(local_headers, parts)): the fields by header cell
zip_dict(local_headers, parts) ==
    [h \in Range(local_headers) |->
        parts[CHOOSE k \in 1..Len(local_headers) :
                  local_headers[k] = h
                  /\ \A j \in (k + 1)..Len(local_headers) : local_headers[j] # h]]

\* entry.get(col, '')
get(fields, col) == IF col \in DOMAIN fields THEN fields[col] ELSE <<>>

\* 2Sorting_Data_From_2txt_PC.py:104-113: the entries of the lines of a block
RECURSIVE block_entries(_, _)
block_entries(local_headers, ls) ==
    IF ls = <<>> THEN <<>>
    ELSE LET parts == split(Head(ls), "\t")
             rest == block_entries(local_headers, Tail(ls))
         IN  IF Len(parts) < Len(local_headers) THEN rest
             ELSE LET fields == zip_dict(local_headers, parts)
                      c == IF <<"Coord">> \in DOMAIN fields
                           THEN coord_ints(fields[<<"Coord">>])
                           ELSE <<"Exception">>
                  IN  IF c[1] # "ok" THEN rest
                      ELSE <<[fields |-> fields, x |-> c[2], y |-> c[3], z |-> c[4]]>>
                               \o rest

\* 2Sorting_Data_From_2txt_PC.py:99-103: the blocks in turn; acc is
\* <<entries, local_headers>>
RECURSIVE parse_blocks(_, _)
parse_blocks(blocks, acc) ==
    IF blocks = <<>> THEN acc
    ELSE LET ls == split(strip(Head(blocks)), "\n")
         IN  IF ~startswith_Coord(ls[1]) THEN parse_blocks(Tail(blocks), acc)
             ELSE LET local_headers == split(ls[1], "\t")
                  IN  parse_blocks(Tail(blocks),
                                   <<acc[1] \o block_entries(local_headers, Tail(ls)),
                                     local_headers>>)

\* parse_txt_file: <<entries, local_headers>>; local_headers is <<>> (None)
\* when no block starts with "Coord"
parse_txt_file(text) == parse_blocks(split(strip(text), "###"), <<<<>>, <<>>>>)

\* (z, x, y) of a before (z, x, y) of b
key_less(a, b) ==
    \/ a.z < b.z
    \/ a.z = b.z /\ a.x < b.x
    \/ a.z = b.z /\ a.x = b.x /\ a.y < b.y

\* e put into the sorted list after every element that is not greater
RECURSIVE insert_sorted(_, _)
insert_sorted(e, es) ==
    IF es = <<>> THEN <<e>>
    ELSE IF key_less(e, es[Len(es)])
    THEN insert_sorted(e, SubSeq(es, 1, Len(es) - 1)) \o <<es[Len(es)]>>
    ELSE es \o <<e>>

\* sorted(entries, key=lambda e: (e['z'], e['x'], e['y'])): stable
RECURSIVE sorted_by_key(_)
sorted_by_key(es) ==
    IF es = <<>> THEN <<>>
    ELSE insert_sorted(es[Len(es)], sorted_by_key(SubSeq(es, 1, Len(es) - 1)))

\* [e for e in es if e['Metabolite'] in sel]
RECURSIVE filter_selected(_, _)
filter_selected(es, sel) ==
    IF es = <<>> THEN <<>>
    ELSE (IF Head(es).fields[<<"Metabolite">>] \in sel THEN <<Head(es)>> ELSE <<>>)
             \o filter_selected(Tail(es), sel)

\* what the user can type at the metabolite prompt
Selections == {<<>>, <<"Main">>, <<"Main", ",", " ", "NAA">>}

\* {m.strip() for m in selected.split(',') if m.strip()}
selection_set(selected) ==
    {strip(m) : m \in {t \in Range(split(selected, ",")) : strip(t) # <<>>}}

(***************************************************************************)
(* The workbook.  A worksheet is the function from the <<row, column>> of  *)
(* the cells written so far to their values; a formula is the token        *)
(* sequence of its text, a cell reference in it being a column letter      *)
(* followed by a row numeral.                                              *)
(***************************************************************************)
ColumnLetters ==
    <<"A", "B", "C", "D", "E", "F", "G", "H", "I", "J", "K", "L", "M", "N", "O",
      "P", "Q", "R", "S", "T", "U", "V", "W", "X", "Y", "Z", "AA", "AB", "AC",
      "AD", "AE", "AF", "AG", "AH", "AI", "AJ", "AK", "AL", "AM", "AN">>

get_column_letter(n) == ColumnLetters[n]

\* list.index(v), counted from 0
index(seq, v) ==
    (CHOOSE k \in 1..Len(seq) : seq[k] = v /\ \A j \in 1..(k - 1) : seq[j] # v) - 1

\* headers + ['Height', 'FWHM', 'I0ps', 'I0']
header_cols_of(hdrs) == hdrs \o <<<<"Height">>, <<"FWHM">>, <<"I0ps">>, <<"I0">>>>

RIGHT_OFFSET == 18

\* ws.cell(row, column, value) for the writes in turn: a write is
\* <<row, column, value>>
write_cells(ws, writes) ==
    LET at(c) == {k \in 1..Len(writes) : <<writes[k][1], writes[k][2]>> = c}
        cells == {<<writes[k][1], writes[k][2]>> : k \in 1..Len(writes)}
    IN  [c \in cells \cup DOMAIN ws |->
            IF c \in cells
            THEN writes[CHOOSE k \in at(c) : \A j \in at(c) : j <= k][3]
            ELSE ws[c]]

\* the labels of rows 1 to 3
label_writes ==
    << <<1, 1, <<"TRp">>>>, <<2, 1, <<"T1p">>>>, <<3, 1, <<"TEp">>>>,
       <<1, 3, <<"TRs">>>>, <<2, 3, <<"T1s">>>>, <<3, 3, <<"TEs">>>> >>

\* the entry read last, whatever its coordinate
entry_of_last_read(es, coord) == IF es = <<>> THEN <<>> ELSE <<es[Len(es)]>>

\* the last entry of es with the Coord cell coord: {e['Coord']: e for e in es}
entry_of(es, coord) ==
    IF \E k \in 1..Len(es) : es[k].fields[<<"Coord">>] = coord
    THEN <<es[CHOOSE k \in 1..Len(es) :
                  /\ es[k].fields[<<"Coord">>] = coord
                  /\ \A j \in (k + 1)..Len(es) : es[j].fields[<<"Coord">>] # coord]>>
    ELSE <<>>

\* extract_coord_key
extract_coord_key(coord) ==
    LET c == coord_ints(coord)
    IN  IF c[1] = "ok" THEN [z |-> c[4], x |-> c[2], y |-> c[3]]
        ELSE [z |-> 9999, x |-> 9999, y |-> 9999]

\* the orders sorted(set, key=extract_coord_key) can give: the order of
\* coordinates with equal keys is that of the iteration over the set
sorted_coords(S) ==
    {o \in [1..Cardinality(S) -> S] :
        /\ \A c \in S : \E k \in DOMAIN o : o[k] = c
        /\ \A j, k \in DOMAIN o :
              j < k => ~key_less(extract_coord_key(o[k]), extract_coord_key(o[j]))}

\* the data cells of an entry, from column first on
data_writes(hdrs, fields, row, first) ==
    [c \in 1..Len(hdrs) |-> <<row, first + c - 1, get(fields, hdrs[c])>>]

\* the target side gets the formulas of the reference side
right_formula_writes_as_left(hdrs, row) ==
    LET cols == header_cols_of(hdrs)
        r == ToString(row)
        a_col == get_column_letter(index(cols, <<"Area">>) + 1)
        l_col == get_column_letter(index(cols, <<"LDamping">>) + 1)
        h_idx == index(cols, <<"Height">>)
        f_idx == index(cols, <<"FWHM">>)
    IN  << <<row, h_idx + 1 + RIGHT_OFFSET, <<"=", a_col, r, "/", l_col, r>>>>,
           <<row, f_idx + 1 + RIGHT_OFFSET, <<"=", l_col, r, "/PI()">>>>,
           <<row, f_idx + 2 + RIGHT_OFFSET,
             <<"=", get_column_letter(h_idx + 1), r, "*EXP($B$3/",
               get_column_letter(f_idx + 1), r, ")">>>>,
           <<row, f_idx + 3 + RIGHT_OFFSET,
             <<"=", get_column_letter(f_idx + 2), r, "*(1-EXP(-$B$1/$B$2))">>>> >>

\* 2Sorting_Data_From_2txt_PC.py:204-214: Height, FWHM, I0ps, I0 of the
\* reference side
left_formula_writes(hdrs, row) ==
    LET cols == header_cols_of(hdrs)
        r == ToString(row)
        a_col == get_column_letter(index(cols, <<"Area">>) + 1)
        l_col == get_column_letter(index(cols, <<"LDamping">>) + 1)
        h_idx == index(cols, <<"Height">>)
        f_idx == index(cols, <<"FWHM">>)
        h_col == get_column_letter(h_idx + 1)
        f_col == get_column_letter(f_idx + 1)
        i0_col == f_idx + 3
    IN  << <<row, h_idx + 1, <<"=", a_col, r, "/", l_col, r>>>>,
           <<row, f_idx + 1, <<"=", l_col, r, "/PI()">>>>,
           <<row, f_idx + 2, <<"=", h_col, r, "*EXP($B$3/", f_col, r, ")">>>>,
           <<row, i0_col,
             <<"=", get_column_letter(i0_col - 1), r, "*(1-EXP(-$B$1/$B$2))">>>> >>

\* 2Sorting_Data_From_2txt_PC.py:220-224: the same of the target side
right_formula_writes(hdrs, row) ==
    LET cols == header_cols_of(hdrs)
        r == ToString(row)
        h_idx == index(cols, <<"Height">>)
        f_idx == index(cols, <<"FWHM">>)
    IN  << <<row, h_idx + 1 + RIGHT_OFFSET, <<"=", "V", r, "/", "Y", r>>>>,
           <<row, f_idx + 1 + RIGHT_OFFSET, <<"=", "Y", r, "/PI()">>>>,
           <<row, f_idx + 2 + RIGHT_OFFSET,
             <<"=", "AE", r, "*EXP($D$3/", "AF", r, ")">>>>,
           <<row, f_idx + 3 + RIGHT_OFFSET,
             <<"=", "AG", r, "*(1-EXP(-$D$1/$D$2))">>>> >>

\* 2Sorting_Data_From_2txt_PC.py:198-226: the writes of one row of 'all'
all_row_writes(hdrs, f1, f2, coord, row) ==
    LET r1 == entry_of(f1, coord)
        r2 == entry_of(f2, coord)
    IN  (IF r1 # <<>>
         THEN data_writes(hdrs, r1[1].fields, row, 1) \o left_formula_writes(hdrs, row)
         ELSE <<>>)
        \o (IF r2 # <<>>
            THEN data_writes(hdrs, r2[1].fields, row, 1 + RIGHT_OFFSET)
                     \o right_formula_writes(hdrs, row)
            ELSE <<>>)

\* 2Sorting_Data_From_2txt_PC.py:196-226: the rows from row_pointer on
RECURSIVE all_rows_writes(_, _, _, _, _)
all_rows_writes(hdrs, f1, f2, all_coords, row_pointer) ==
    IF all_coords = <<>> THEN <<>>
    ELSE all_row_writes(hdrs, f1, f2, Head(all_coords), row_pointer)
             \o all_rows_writes(hdrs, f1, f2, Tail(all_coords), row_pointer + 1)

\* 2Sorting_Data_From_2txt_PC.py:191-194: row 4
header_writes(hdrs) ==
    LET cols == header_cols_of(hdrs)
    IN  [c \in 1..Len(cols) |-> <<4, c, cols[c] \o <<"_p">>>>]
            \o [c \in 1..Len(cols) |-> <<4, c + RIGHT_OFFSET, cols[c] \o <<"_s">>>>]

\* 2Sorting_Data_From_2txt_PC.py:183-226
all_sheet(hdrs, f1, f2, all_coords) ==
    write_cells(<<>>, label_writes \o header_writes(hdrs)
                          \o all_rows_writes(hdrs, f1, f2, all_coords, 5))

\* 2Sorting_Data_From_2txt_PC.py:233-250: the labels, the links to 'all' and
\* row 4 of a slice sheet
z_sheet_head_writes(hdrs) ==
    LET cols == header_cols_of(hdrs)
    IN  label_writes
            \o << <<1, 2, <<"=all!B1">>>>, <<2, 2, <<"=all!B2">>>>,
                  <<3, 2, <<"=all!B3">>>>, <<1, 4, <<"=all!D1">>>>,
                  <<2, 4, <<"=all!D2">>>>, <<3, 4, <<"=all!D3">>>>,
                  <<1, 6, <<"=all!F1">>>> >>
            \o [c \in 1..Len(cols) |-> <<4, c, cols[c]>>]

\* 2Sorting_Data_From_2txt_PC.py:256-266: Height, FWHM, I0ps, I0 of a row of
\* a slice sheet
z_formula_writes(hdrs, row) ==
    LET cols == header_cols_of(hdrs)
        r == ToString(row)
        a_col == get_column_letter(index(cols, <<"Area">>) + 1)
        l_col == get_column_letter(index(cols, <<"LDamping">>) + 1)
        h_idx == index(cols, <<"Height">>)
        f_idx == index(cols, <<"FWHM">>)
        h_col == get_column_letter(h_idx + 1)
        f_col == get_column_letter(f_idx + 1)
    IN  << <<row, h_idx + 1, <<"=", a_col, r, "/", l_col, r>>>>,
           <<row, f_idx + 1, <<"=", l_col, r, "/PI()">>>>,
           <<row, f_idx + 2, <<"=", h_col, r, "*EXP($B$3/", f_col, r, ")">>>>,
           <<row, f_idx + 3, <<"=", "N", r, "*(1-EXP(-$B$1/$B$2))">>>> >>

\* 2Sorting_Data_From_2txt_PC.py:252-266: the rows of a slice sheet
RECURSIVE z_rows_writes(_, _, _)
z_rows_writes(hdrs, df_z, row) ==
    IF df_z = <<>> THEN <<>>
    ELSE data_writes(hdrs, Head(df_z).fields, row, 1) \o z_formula_writes(hdrs, row)
             \o z_rows_writes(hdrs, Tail(df_z), row + 1)

\* df[df['z'] == z_val]
RECURSIVE rows_with_z(_, _)
rows_with_z(es, z_val) ==
    IF es = <<>> THEN <<>>
    ELSE (IF Head(es).z = z_val THEN <<Head(es)>> ELSE <<>>)
             \o rows_with_z(Tail(es), z_val)

\* write_z_sheet
write_z_sheet(hdrs, df_z) ==
    write_cells(<<>>, z_sheet_head_writes(hdrs) \o z_rows_writes(hdrs, df_z, 5))

\* f"z{z_val}p", f"z{z_val}s"
z_title(z_val, suffix) == <<"z", ToString(z_val), suffix>>

\* 2Sorting_Data_From_2txt_PC.py:269-275: the slice sheets of one side
z_sheets(hdrs, es, suffix) ==
    [t \in {z_title(es[k].z, suffix) : k \in 1..Len(es)} |->
        write_z_sheet(hdrs,
            rows_with_z(es, es[CHOOSE k \in 1..Len(es) :
                                   z_title(es[k].z, suffix) = t].z))]

\* ws.max_row
max_row(ws) == SetMax({c[1] : c \in DOMAIN ws})

\* ws.insert_cols(k): the cells from column k on move one column to the
\* right; the text of the formulas is left as it is
insert_cols(ws, k) ==
    [c \in {<<d[1], IF d[2] >= k THEN d[2] + 1 ELSE d[2]>> : d \in DOMAIN ws} |->
        ws[<<c[1], IF c[2] > k THEN c[2] - 1 ELSE c[2]>>]]

\* the concentration is computed from the values of the parsed records
c_mM_value(row) == <<"1.0">>

\* 2Sorting_Data_From_2txt_PC.py:288: the formula of 'c [mM]'
c_mM_formula(row) ==
    <<"=", "IF(AND(", "O", ToString(row), "<>0, ", "AH", ToString(row), "<>0), (",
      "AH", ToString(row), "/", "O", ToString(row), ")*$F$1, \"\")">>

\* 2Sorting_Data_From_2txt_PC.py:277-292 for one sheet
finish_sheet(ws, is_all, hdrs) ==
    LET k == index(header_cols_of(hdrs), <<"I0">>) + 2
        w1 == write_cells(ws, << <<1, 5, <<"Pc [mM]">>>> >>
                                  \o (IF is_all THEN <<>>
                                      ELSE << <<1, 6, <<"='all'!F1">>>> >>))
        w2 == write_cells(insert_cols(w1, k), << <<4, k, <<"c [mM]">>>> >>)
    IN  write_cells(w2, [j \in 1..(max_row(w2) - 4) |->
                            <<j + 4, k, IF is_all THEN c_mM_formula(j + 4) ELSE <<>>>>])

\* the script exits
SheetExit(message, how) ==
    /\ xl_printed' = Append(xl_printed, message)
    /\ xl_outcome' = how
    /\ xpc' = "done"

\* 2Sorting_Data_From_2txt_PC.py:61-68
SelectPhantom ==
    /\ xpc = "select_phantom"
    /\ \E path \in {NoPath, "phantom.txt"} :
          /\ file_path1' = path
          /\ IF path = NoPath
             THEN SheetExit("No phantom measurement file selected.", "exit")
             ELSE xpc' = "select_subject" /\ UNCHANGED <<xl_printed, xl_outcome>>
    /\ UNCHANGED <<text1, text2, file_path2, headers, sorted_data1, sorted_data2,
                   sel_set, filtered1, filtered2, excel_path, wb, saved,
                   rcVars, mainVars, fitVars, heatVars, dcmVars>>

\* 2Sorting_Data_From_2txt_PC.py:70-91
SelectSubject ==
    /\ xpc = "select_subject"
    /\ \E path \in {NoPath, "subject.txt"} :
          /\ file_path2' = path
          /\ IF path = NoPath
             THEN SheetExit("No subject measurement file selected.", "exit")
             ELSE xpc' = "parse" /\ UNCHANGED <<xl_printed, xl_outcome>>
    /\ UNCHANGED <<text1, text2, file_path1, headers, sorted_data1, sorted_data2,
                   sel_set, filtered1, filtered2, excel_path, wb, saved,
                   rcVars, mainVars, fitVars, heatVars, dcmVars>>

\* 2Sorting_Data_From_2txt_PC.py:116-121
ParseFiles ==
    /\ xpc = "parse"
    /\ headers' = parse_txt_file(text1)[2]
    /\ sorted_data1' = sorted_by_key(parse_txt_file(text1)[1])
    /\ sorted_data2' = sorted_by_key(parse_txt_file(text2)[1])
    /\ xpc' = "select_metabolites"
    /\ UNCHANGED <<text1, text2, file_path1, file_path2, sel_set, filtered1,
                   filtered2, excel_path, wb, saved, xl_printed, xl_outcome,
                   rcVars, mainVars, fitVars, heatVars, dcmVars>>

\* 2Sorting_Data_From_2txt_PC.py:123-150: the metabolite prompt, the filter
\* and the preview
SelectMetabolites ==
    /\ xpc = "select_metabolites"
    /\ \E selected \in Selections :
          LET sel == selection_set(selected)
              f1 == filter_selected(sorted_data1, sel)
              f2 == filter_selected(sorted_data2, sel)
          IN  /\ sel_set' = sel
              /\ filtered1' = f1
              /\ filtered2' = f2
              /\ IF f1 = <<>> \/ f2 = <<>>
                 THEN SheetExit("No matching data in one or both files. Exiting.",
                                "exit")
                 ELSE xpc' = "ask_save" /\ UNCHANGED <<xl_printed, xl_outcome>>
    /\ UNCHANGED <<text1, text2, file_path1, file_path2, headers, sorted_data1,
                   sorted_data2, excel_path, wb, saved,
                   rcVars, mainVars, fitVars, heatVars, dcmVars>>

\* 2Sorting_Data_From_2txt_PC.py:152-156 and 298-301: the question and the
\* save dialog
AskSave ==
    /\ xpc = "ask_save"
    /\ \E answer \in {"y", "n"}, path \in {NoPath, "out.xlsx"} :
          IF answer # "y"
          THEN /\ SheetExit("Exiting without saving.", "finished")
               /\ UNCHANGED excel_path
          ELSE /\ excel_path' = path
               /\ IF path = NoPath THEN SheetExit("Save cancelled.", "finished")
                  ELSE xpc' = "workbook" /\ UNCHANGED <<xl_printed, xl_outcome>>
    /\ UNCHANGED <<text1, text2, file_path1, file_path2, headers, sorted_data1,
                   sorted_data2, sel_set, filtered1, filtered2, wb, saved,
                   rcVars, mainVars, fitVars, heatVars, dcmVars>>

\* the Coord cells of the entries
coords_of(es) == {es[k].fields[<<"Coord">>] : k \in 1..Len(es)}

\* 2Sorting_Data_From_2txt_PC.py:157-297: the workbook is built and saved
SaveWorkbook ==
    /\ xpc = "workbook"
    /\ \E all_coords \in sorted_coords(coords_of(filtered1) \cup coords_of(filtered2)) :
          LET sheets == (<<"all">> :> all_sheet(headers, filtered1, filtered2, all_coords))
                            @@ z_sheets(headers, filtered1, "p")
                            @@ z_sheets(headers, filtered2, "s")
          IN  wb' = [t \in DOMAIN sheets |->
                        finish_sheet(sheets[t], t = <<"all">>, headers)]
    /\ saved' = TRUE
    /\ SheetExit("Saved Excel file", "finished")
    /\ UNCHANGED <<text1, text2, file_path1, file_path2, headers, sorted_data1,
                   sorted_data2, sel_set, filtered1, filtered2, excel_path,
                   rcVars, mainVars, fitVars, heatVars, dcmVars>>

InitSheet ==
    /\ rcMode = "none"
    /\ RcIdle
    /\ MainStart(<<>>)
    /\ FitStart("none", <<>>, <<>>)
    /\ HeatIdle
    /\ DcmIdle
    /\ \E layout \in Layouts, recs \in RecordLists :
          SheetStart(TRUE, MeasurementText(layout, recs[1]),
                     MeasurementText(layout, recs[2]))

NextSheet ==
    \/ SelectPhantom
    \/ SelectSubject
    \/ ParseFiles
    \/ SelectMetabolites
    \/ AskSave
    \/ SaveWorkbook

SpecSheet == InitSheet /\ [][NextSheet]_vars

(***************************************************************************)
(* Claims about the spreadsheet assembler, checked under SpecSheet.        *)
(***************************************************************************)
\* the column of 'c [mM]' in the saved sheets, and the column a cell written
\* at column c is found at once 'c [mM]' has been inserted
ConcColumn == Len(headers) + 5
SavedColumn(c) == IF c >= ConcColumn THEN c + 1 ELSE c

\* the coordinate keys of the selected records of both files
UnionCoords == coords_of(filtered1) \cup coords_of(filtered2)

\* in row r of sheet ws the block that starts at column first holds, header
\* by header, the fields of a record of es with the Coord cell coord; the
\* block is empty when es has no such record
BlockHolds(ws, r, first, es, coord) ==
    IF \E k \in 1..Len(es) : es[k].fields[<<"Coord">>] = coord
    THEN \E k \in 1..Len(es) :
            /\ es[k].fields[<<"Coord">>] = coord
            /\ \A c \in 1..Len(headers) :
                  /\ <<r, SavedColumn(first + c - 1)>> \in DOMAIN ws
                  /\ ws[<<r, SavedColumn(first + c - 1)>>] = es[k].fields[headers[c]]
    ELSE \A c \in 1..(Len(headers) + 4) :
            <<r, SavedColumn(first + c - 1)>> \notin DOMAIN ws

\* C16: the 'all' sheet of the saved workbook has exactly one data row, from row 5 on and
\* ordered by (z,x,y), for each distinct coordinate key of the union of the
\* filtered reference and target records; the reference record of that
\* coordinate fills the left (_p) block and the target record of the same
\* coordinate the right (_s) block of the row, and a side with no record for
\* the coordinate is left empty.
C16_MergedByCoordinate ==
    saved =>
        LET ws == wb[<<"all">>]
            rows == 5..(4 + Cardinality(UnionCoords))
        IN  /\ {c[1] : c \in DOMAIN ws} \ (1..4) = rows
            /\ \E o \in [rows -> UnionCoords] :
                  /\ \A c \in UnionCoords : \E r \in rows : o[r] = c
                  /\ \A q, r \in rows :
                        q < r => ~key_less(extract_coord_key(o[r]),
                                           extract_coord_key(o[q]))
                  /\ \A r \in rows :
                        /\ BlockHolds(ws, r, 1, filtered1, o[r])
                        /\ BlockHolds(ws, r, 1 + RIGHT_OFFSET, filtered2, o[r])

\* a workbook is saved whose 'all' sheet has a row with both sides and a row
\* with one side only
C16_Witness ==
    /\ saved
    /\ \E c \in UnionCoords : c \in coords_of(filtered1) /\ c \in coords_of(filtered2)
    /\ \E c \in UnionCoords : c \notin coords_of(filtered1) \/ c \notin coords_of(filtered2)

\* v is the text of a formula with a reference to a cell of row r: it begins
\* with '=' and holds a column letter followed by the numeral of the row
IsFormula(v, r) ==
    /\ v # <<>>
    /\ v[1] = "="
    /\ \E j \in 1..(Len(v) - 1) :
          v[j] \in Range(ColumnLetters) /\ v[j + 1] = ToString(r)

\* the columns of the derived quantities in a saved sheet
DerivedColumns(title) ==
    {Len(headers) + d : d \in 1..4}
        \cup (IF title = <<"all">>
              THEN {ConcColumn} \cup {Len(headers) + d + RIGHT_OFFSET + 1 : d \in 1..4}
              ELSE {})

MaxDcm == 2      \* .dcm files of a folder
MaxNames == 3    \* lines of a name list

\* the folder the user can select, a subfolder of it, the output folder of
\* line 79 and the parent directory entry
ROOT == << <<"R", "">> >>
SUB == <<"A", "">>
NEW_FOLDER == <<"new", "">>
PARENT == <<"..", "">>

\* the names of the original files: 1.dcm, 2.dcm, ...
dcm_name(k) == <<ToString(k), "dcm">>
TxtStems == <<"names", "notes">>

\* the stems in the order sorted() gives them
Stems == <<"..">> \o [k \in 1..(MaxDcm + 1) |-> ToString(k)]
             \o <<"A", "a", "b", "new", "s">>
rank(stem) == CHOOSE k \in 1..Len(Stems) : Stems[k] = stem

\* the content of an original image: one line that names the place it is at
\* when the script starts
image(path) == << [k \in 1..Len(path) |-> path[k][1]] >>

\* the lines of a name list: blank, two plain names, a name with a parent
\* directory part and a name with a subdirectory part
NameLines == {<<>>, <<"a">>, <<"b">>, <<"..", "2">>, <<"s", "a">>}
NameLists == SeqsUpTo(NameLines, MaxNames)

\* the .txt files of a folder: none, one name list, or two files
TxtSets == {<<>>} \cup {<<l>> : l \in NameLists} \cup {<< <<>>, <<>> >>}

\* what else is on disk: a subfolder that can be processed, a subfolder
\* without a name list, a folder 'new' that holds an image, a regular file
\* with the name 'new'
Surroundings == {"none", "sub_ok", "sub_no_txt", "new_dir", "new_file"}

dcm_files_of(folder, n) ==
    [q \in {Append(folder, dcm_name(k)) : k \in 1..n} |-> image(q)]

txt_files_of(folder, lists) ==
    [q \in {Append(folder, <<TxtStems[k], "txt">>) : k \in 1..Len(lists)} |->
        lists[CHOOSE k \in 1..Len(lists) : q = Append(folder, <<TxtStems[k], "txt">>)]]

Disk(n, lists, around) ==
    dcm_files_of(ROOT, n) @@ txt_files_of(ROOT, lists)
        @@ (CASE around = "sub_ok" ->
                     dcm_files_of(Append(ROOT, SUB), 1)
                         @@ txt_files_of(Append(ROOT, SUB), << << <<"a">> >> >>)
              [] around = "sub_no_txt" -> dcm_files_of(Append(ROOT, SUB), 1)
              [] around = "new_dir" ->
                     (Append(Append(ROOT, NEW_FOLDER), <<"a", "dcm">>)
                          :> image(Append(Append(ROOT, NEW_FOLDER), <<"a", "dcm">>)))
              [] around = "new_file" -> (Append(ROOT, NEW_FOLDER) :> <<>>)
              [] OTHER -> [q \in {} |-> <<>>])

Folders(around) ==
    {ROOT} \cup (CASE around \in {"sub_ok", "sub_no_txt"} -> {Append(ROOT, SUB)}
                   [] around = "new_dir" -> {Append(ROOT, NEW_FOLDER)}
                   [] OTHER -> {})

parent(path) == SubSeq(path, 1, Len(path) - 1)
extension(path) == path[Len(path)][2]

\* sorted(): the paths of one folder in the order of their names
sorted_paths(paths) ==
    LET ranks == sorted({rank(q[Len(q)][1]) : q \in paths})
    IN  [k \in 1..Len(ranks) |->
            CHOOSE q \in paths : rank(q[Len(q)][1]) = ranks[k]]

\* T_renaming_dcm_files.py:71: the lines that are not blank
non_blank(file_lines) == SelectSeq(file_lines, LAMBDA l : l # <<>>)

\* T_renaming_dcm_files.py:83: zip(dcm_files, new_names)
zip(dcm_files, new_names) ==
    [k \in 1..(IF Len(dcm_files) < Len(new_names) THEN Len(dcm_files)
               ELSE Len(new_names)) |-> <<dcm_files[k], new_names[k]>>]

\* T_renaming_dcm_files.py:85-86: os.path.join(output_folder, f"{new_name}.dcm")
new_path_of(output_folder, new_name) ==
    output_folder \o [k \in 1..(Len(new_name) - 1) |-> <<new_name[k], "">>]
        \o << <<new_name[Len(new_name)], "dcm">> >>

\* the file a path names once the operating system has followed its '..'
\* components
RECURSIVE resolve(_, _)
resolve(done, path) ==
    IF path = <<>> THEN done
    ELSE IF Head(path) = PARENT THEN resolve(parent(done), Tail(path))
    ELSE resolve(Append(done, Head(path)), Tail(path))

DcmAbort(exception) ==
    /\ dcm_outcome' = exception
    /\ dpc' = "done"

\* T_renaming_dcm_files.py:46-54
SelectRoot ==
    /\ dpc = "select_root"
    /\ \E choice \in {<<>>, ROOT} :
          /\ root_folder' = choice
          /\ IF choice = <<>>
             THEN DcmAbort("RuntimeError") /\ UNCHANGED to_visit
             ELSE /\ to_visit' = <<choice>>
                  /\ dpc' = "walk"
                  /\ UNCHANGED dcm_outcome
    /\ UNCHANGED <<originals, fs, dirs, visited, current_path, pending,
                   processed_folders, skipped_folders, created, dcm_printed,
                   rcVars, mainVars, fitVars, heatVars, sheetVars>>

\* T_renaming_dcm_files.py:64, 75: the folder is skipped
skip(folder, reason) ==
    /\ skipped_folders' = Append(skipped_folders, <<folder, reason>>)
    /\ UNCHANGED <<dpc, dirs, pending, created, dcm_outcome>>

\* T_renaming_dcm_files.py:57-80: os.walk yields the next folder; its
\* subfolders are those found when it is yielded
VisitFolder ==
    /\ dpc = "walk"
    /\ to_visit # <<>>
    /\ LET cur == Head(to_visit)
           files_here == {q \in DOMAIN fs : parent(q) = cur}
           dcm_files == sorted_paths({q \in files_here : extension(q) = "dcm"})
           txt_files == {q \in files_here : extension(q) = "txt"}
           new_names == non_blank(fs[CHOOSE t \in txt_files : TRUE])
           output_folder == Append(cur, NEW_FOLDER)
       IN  /\ visited' = Append(visited, cur)
           /\ current_path' = cur
           /\ to_visit' = sorted_paths({d \in dirs : d # <<>> /\ parent(d) = cur})
                              \o Tail(to_visit)
           /\ IF dcm_files = <<>> \/ Cardinality(txt_files) # 1
              THEN skip(cur, "Missing DCM or TXT / multiple TXT")
              ELSE IF Len(dcm_files) # Len(new_names)
              THEN skip(cur, "DCM/TXT count mismatch")
              ELSE IF output_folder \in DOMAIN fs
              THEN /\ DcmAbort("FileExistsError")
                   /\ UNCHANGED <<dirs, pending, created, skipped_folders>>
              ELSE /\ dirs' = dirs \cup {output_folder}
                   /\ created' = created \cup
                          (IF output_folder \in dirs THEN {}
                           ELSE {<<cur, output_folder>>})
                   /\ pending' = zip(dcm_files, new_names)
                   /\ dpc' = "copy"
                   /\ UNCHANGED <<skipped_folders, dcm_outcome>>
    /\ UNCHANGED <<originals, fs, root_folder, processed_folders, dcm_printed,
                   rcVars, mainVars, fitVars, heatVars, sheetVars>>

\* T_renaming_dcm_files.py:83-90: one turn of the copy loop, and the entry
\* in processed_folders after the last one
CopyFile ==
    /\ dpc = "copy"
    /\ LET old_path == Head(pending)[1]
           new_path == new_path_of(Append(current_path, NEW_FOLDER), Head(pending)[2])
           target == resolve(<<>>, new_path)
       IN  IF parent(target) \notin dirs
           THEN /\ DcmAbort("FileNotFoundError")
                /\ UNCHANGED <<fs, created, pending, processed_folders>>
           ELSE IF target = old_path
           THEN /\ DcmAbort("SameFileError")
                /\ UNCHANGED <<fs, created, pending, processed_folders>>
           ELSE /\ fs' = (target :> fs[old_path]) @@ fs
                /\ created' = created \cup {<<current_path, target>>}
                /\ pending' = Tail(pending)
                /\ IF Tail(pending) = <<>>
                   THEN /\ processed_folders' = Append(processed_folders, current_path)
                        /\ dpc' = "walk"
                   ELSE UNCHANGED <<processed_folders, dpc>>
                /\ UNCHANGED dcm_outcome
    /\ UNCHANGED <<originals, dirs, root_folder, to_visit, visited, current_path,
                   skipped_folders, dcm_printed,
                   rcVars, mainVars, fitVars, heatVars, sheetVars>>

\* T_renaming_dcm_files.py:93-103
Summary ==
    /\ dpc = "walk"
    /\ to_visit = <<>>
    /\ dcm_printed' = <<[processed |-> processed_folders,
                         skipped |-> skipped_folders]>>
    /\ dcm_outcome' = "finished"
    /\ dpc' = "done"
    /\ UNCHANGED <<originals, fs, dirs, root_folder, to_visit, visited,
                   current_path, pending, processed_folders, skipped_folders,
                   created, rcVars, mainVars, fitVars, heatVars, sheetVars>>

InitDcm ==
    /\ rcMode = "none"
    /\ RcIdle
    /\ MainStart(<<>>)
    /\ FitStart("none", <<>>, <<>>)
    /\ HeatIdle
    /\ SheetIdle
    /\ \E n \in 0..MaxDcm, lists \in TxtSets, around \in Surroundings :
          DcmStart(TRUE, Disk(n, lists, around), Folders(around))

NextDcm == SelectRoot \/ VisitFolder \/ CopyFile \/ Summary

SpecDcm == InitDcm /\ [][NextDcm]_vars

(***************************************************************************)
(* Claims about DICOM renaming, checked under SpecDcm.                     *)
(***************************************************************************)
\* path lies inside the 'new' subfolder of folder
InsideNew(folder, path) ==
    /\ Len(path) > Len(folder) + 1
    /\ SubSeq(path, 1, Len(folder) + 1) = Append(folder, NEW_FOLDER)

\* C18: DICOM renaming never modifies or overwrites an original: each .dcm
\* file that was on disk when the script started is still at its path with
\* its content, and every file the script has written lies inside the 'new'
\* subfolder of the folder that was being processed.
C18_OriginalsUntouched ==
    /\ \A q \in DOMAIN originals :
          extension(q) = "dcm" => (q \in DOMAIN fs /\ fs[q] = originals[q])
    /\ \A c \in created : extension(c[2]) = "dcm" => InsideNew(c[1], c[2])

\* the folder holds, when the script starts, at least one .dcm file and
\* exactly one .txt file with as many non-blank lines as there are .dcm files
Qualifies(folder) ==
    LET files_here == {q \in DOMAIN originals : parent(q) = folder}
        dcm_files == {q \in files_here : extension(q) = "dcm"}
        txt_files == {q \in files_here : extension(q) = "txt"}
    IN  /\ dcm_files # {}
        /\ Cardinality(txt_files) = 1
        /\ \A t \in txt_files :
              Len(non_blank(originals[t])) = Cardinality(dcm_files)

InProcessed(folder) ==
    \E k \in 1..Len(processed_folders) : processed_folders[k] = folder
InSkipped(folder) ==
    \E k \in 1..Len(skipped_folders) :
        /\ skipped_folders[k][1] = folder
        /\ skipped_folders[k][2] \in {"Missing DCM or TXT / multiple TXT",
                                      "DCM/TXT count mismatch"}

\* the folders whose turn of the walk is over
Settled ==
    {visited[k] : k \in 1..Len(visited)}
        \ (IF dpc = "copy" THEN {current_path} ELSE {})

\* C19: a visited folder is processed if and only if it directly contains at
\* least one .dcm file and exactly one .txt file whose number of non-blank
\* lines equals the number of .dcm files; otherwise it is listed as skipped
\* with a reason and nothing is created for it; every visited folder is in
\* exactly one of the two lists.
C19_ProcessedIffQualifies ==
    \A folder \in Settled :
        /\ InProcessed(folder) <=> Qualifies(folder)
        /\ InProcessed(folder) <=> ~InSkipped(folder)
        /\ InSkipped(folder) => \A c \in created : c[1] # folder

\* C20: in every script, when the user makes no selection in a file or
\* folder picker the run ends with a console message, without an exception
\* and without output.
C20_NoSelectionAbortsQuietly ==
    /\ (pc = "done" /\ input_path = NoPath)
           => (outcome = "no_input" /\ printed # <<>> /\ n_writes = 0)
    /\ (fpc = "done" /\ (amp_file = NoPath \/ time_file = NoPath))
           => (fit_outcome = "exit" /\ written = {})
    /\ (hpc = "done" /\ excel_file = NoPath)
           => (heat_outcome = "exit" /\ heat_printed # <<>> /\ plots = <<>>)
    /\ (xpc = "done" /\ (file_path1 = NoPath \/ file_path2 = NoPath))
           => (xl_outcome = "exit" /\ xl_printed # <<>> /\ ~saved)
    /\ (dpc = "done" /\ root_folder = <<>>)
           => (dcm_outcome = "exit" /\ dcm_printed # <<>> /\ created = {})

(***************************************************************************)
(* Claims about malformed records, guesses, signs and preserved lines.     *)
(***************************************************************************)
\* a row of the sheet has a coordinate that is not three integers
HeatMalformed ==
    \E k \in 1..Len(sheet) : coord_ints(strip(sheet[k].coord))[1] # "ok"

\* the record lines of a measurement file: <<block, line>> for each line
\* after the header line of a block that starts with "Coord"
RecordLinesOf(text) ==
    LET blocks == split(strip(text), "###")
        ls(b) == split(strip(blocks[b]), "\n")
    IN  {bl \in (1..Len(blocks)) \X (1..Len(text)) :
            /\ startswith_Coord(ls(bl[1])[1])
            /\ bl[2] \in 2..Len(ls(bl[1]))}

\* C21: a record whose coordinate cannot be parsed into three integers never
\* aborts the run: the heatmap scripts go on after reading the sheet, and
\* parse_txt_file goes on with a warning printed for the record.
C21_MalformedRecordRecovered ==
    [][/\ (hpc = "read" /\ HeatMalformed /\ sheet_has_col) => hpc' # "done"
       /\ (xpc = "parse"
              /\ Cardinality(RecordLinesOf(text1)) > Len(parse_txt_file(text1)[1]))
             => (xpc' # "done" /\ Len(xl_printed') > Len(xl_printed))]_vars

\* C22: in both relaxometry scripts the initial guesses handed to the fit are
\* the maximum of the absolute values of the amplitude samples, the median
\* of the timing values and 1.0, for every sample set.
C22_GuessesFromSamples ==
    (fpc \in {"fit_free", "fit_fixed"} /\ Amplitudes # <<>> /\ TI # <<>>)
        => p0(script, Amplitudes, TI)
               = <<np_max([k \in 1..Len(Amplitudes) |-> Abs(Amplitudes[k])]),
                   np_median(TI), ALPHA_ONE>>

\* the amplitudes and the phases read from the file of the T1 script
ParsedAmps == scan_t1(amp_text, FALSE, FALSE, <<>>, <<>>)[1]
ParsedPhases == scan_t1(amp_text, FALSE, FALSE, <<>>, <<>>)[2]

\* C23: in the T1 script, when phase data is present, every sample whose
\* phase is below 0 yields a signed amplitude below 0 and every sample whose
\* phase is >= 0 yields the parsed amplitude unchanged.
C23_SignFromPhase ==
    (script = "T1" /\ ParsedPhases # <<>>)
        => \A k \in 1..Len(Amplitudes) :
              /\ ParsedPhases[k] < 0 => Amplitudes[k] < 0
              /\ ParsedPhases[k] >= 0 => Amplitudes[k] = ParsedAmps[k]

\* the block of three lines that starts at line h + 1 of the input is
\* well-formed: its data line has a coordinate the rotation applies to
WellFormed(ls, h) ==
    /\ h \in BlockStarts(ls, 0)
    /\ h + 3 <= Len(ls)
    /\ try_rotate(strip(ls[h + 2]), rotation[1])[1] = "ok"

\* the text of a line, its end of line left out
text_of(line) ==
    IF line # <<>> /\ line[Len(line)] = "\n"
    THEN SubSeq(line, 1, Len(line) - 1) ELSE line

\* the fields of a line: the text between its tabs
fields_of(line) == split(text_of(line), "\t")

\* the scanning loop has ended
LoopOver ==
    \/ pc = "loop" /\ i >= Len(lines)
    \/ pc = "done" /\ outcome \in {"saved", "no_output"}

\* C24: the rotator preserves the rest of the data: for every well-formed
\* voxel block the output block has the same header line and end line and a
\* data line with the same fields after the coordinate, in number and order;
\* every line outside a voxel block is copied unchanged; the output has as
\* many lines as the input.
C24_RestPreserved ==
    LoopOver =>
        /\ Len(output_lines) = Len(lines)
        /\ \A k \in 1..Len(lines) :
              IF \E h \in BlockStarts(lines, 0) : k \in (h + 1)..(h + 3)
              THEN \A h \in BlockStarts(lines, 0) :
                      WellFormed(lines, h) =>
                          /\ k \in {h + 1, h + 3} =>
                                text_of(output_lines[k]) = text_of(lines[k])
                          /\ k = h + 2 =>
                                Tail(fields_of(output_lines[k])) = Tail(fields_of(lines[k]))
              ELSE output_lines[k] = lines[k]

\* C25: for every sequence of input lines the scanning loop ends without an
\* uncaught error and reaches the save step; the index never passes the last
\* line, also when a line starting with 'Coord' is the last or the
\* second-to-last line of the file.
C25_LoopReachesSave ==
    /\ outcome # "IndexError"
    /\ pc = "loop" => i <= Len(lines)
    /\ (pc = "done" /\ lines # <<>>) => i >= Len(lines)

(***************************************************************************)
(* Further claims about the spreadsheet assembler, DICOM renaming and the  *)
(* bound adjustment of the heatmap.                                        *)
(***************************************************************************)
\* the columns whose cell of row r the formula text v names
Refs(v, r) ==
    {v[j] : j \in {k \in 1..(Len(v) - 1) :
                      v[k] \in Range(ColumnLetters) /\ v[k + 1] = ToString(r)}}

\* the letter of the column that holds header h of the reference side and
\* of the target side in the saved 'all' sheet
Letter_p(h) ==
    get_column_letter(SavedColumn(index(header_cols_of(headers), <<h>>) + 1))
Letter_s(h) ==
    get_column_letter(
        SavedColumn(index(header_cols_of(headers), <<h>>) + 1 + RIGHT_OFFSET))
Cell_s(r, h) ==
    <<r, SavedColumn(index(header_cols_of(headers), <<h>>) + 1 + RIGHT_OFFSET)>>

\* C26: in the saved 'all' sheet each target-side formula refers to the
\* target-side cells of its own row (Height_s to Area_s and LDamping_s,
\* FWHM_s to LDamping_s, I0ps_s to Height_s and FWHM_s, I0_s to I0ps_s) and
\* each 'c [mM]' formula to I0_p and I0_s of its row, for every header
\* layout that contains 'Area' and 'LDamping'.
C26_TargetFormulasOwnBlock ==
    saved =>
        LET ws == wb[<<"all">>]
        IN  \A r \in {c[1] : c \in DOMAIN ws} \ (1..4) :
              /\ Cell_s(r, "Height") \in DOMAIN ws =>
                    /\ Refs(ws[Cell_s(r, "Height")], r)
                           = {Letter_s("Area"), Letter_s("LDamping")}
                    /\ Refs(ws[Cell_s(r, "FWHM")], r) = {Letter_s("LDamping")}
                    /\ Refs(ws[Cell_s(r, "I0ps")], r)
                           = {Letter_s("Height"), Letter_s("FWHM")}
                    /\ Refs(ws[Cell_s(r, "I0")], r) = {Letter_s("I0ps")}
              /\ <<r, ConcColumn>> \in DOMAIN ws =>
                    Refs(ws[<<r, ConcColumn>>], r) = {Letter_p("I0"), Letter_s("I0")}

\* row r of sheet ws holds, in the block that starts at column first, the
\* fields of record e header by header
RowHolds(ws, r, first, e) ==
    \A c \in 1..Len(headers) :
        /\ <<r, SavedColumn(first + c - 1)>> \in DOMAIN ws
        /\ ws[<<r, SavedColumn(first + c - 1)>>] = e.fields[headers[c]]

\* C27: no selected record is lost in the merge: every record of the
\* filtered reference set and of the filtered target set is in some row of
\* the 'all' sheet, also when several selected records share a coordinate.
C27_NoRecordLost ==
    saved =>
        LET ws == wb[<<"all">>]
            rows == {c[1] : c \in DOMAIN ws} \ (1..4)
        IN  /\ \A k \in 1..Len(filtered1) :
                  \E r \in rows : RowHolds(ws, r, 1, filtered1[k])
            /\ \A k \in 1..Len(filtered2) :
                  \E r \in rows : RowHolds(ws, r, 1 + RIGHT_OFFSET, filtered2[k])

\* the .dcm files a folder holds when the script starts, in sorted order,
\* and the non-blank lines of its .txt file
OriginalDcm(folder) ==
    sorted_paths({q \in DOMAIN originals :
                      parent(q) = folder /\ extension(q) = "dcm"})
OriginalNames(folder) ==
    non_blank(originals[CHOOSE t \in DOMAIN originals :
                            parent(t) = folder /\ extension(t) = "txt"])

\* C28: in a processed folder with n .dcm files the i-th file in sorted
\* order has its copy at new/<i-th non-blank line>.dcm for every i, and 'new'
\* has received one copy for each of the n originals: no copy is overwritten
\* by a later copy of the run.
C28_OneCopyEach ==
    \A p \in 1..Len(processed_folders) :
        LET folder == processed_folders[p]
            dcm_files == OriginalDcm(folder)
            new_names == OriginalNames(folder)
            copy(k) == resolve(<<>>, new_path_of(Append(folder, NEW_FOLDER),
                                                 new_names[k]))
        IN  /\ \A k \in 1..Len(dcm_files) :
                  /\ copy(k) \in DOMAIN fs
                  /\ fs[copy(k)] = originals[dcm_files[k]]
            /\ Cardinality({c \in created :
                               c[1] = folder /\ extension(c[2]) = "dcm"})
                   = Len(dcm_files)

\* C29: in the heatmap script with bound adjustment, for data of any sign: a
\* vmax that has been adjusted is >= the actual maximum and a vmin that has
\* been adjusted is <= the actual minimum (the two may have changed places
\* in the swap); when the requested window strictly contains the data extent
\* on both sides no swap occurs and no data value is masked in any slice.
C29_AdjustedWindowHoldsData ==
    (Limited /\ has_values) =>
        /\ gt(user_vmax, actual_max) =>
              le(actual_max, IF Swapped THEN vmin ELSE vmax)
        /\ lt(user_vmin, actual_min) =>
              le(IF Swapped THEN vmax ELSE vmin, actual_min)
        /\ (gt(user_vmax, actual_max) /\ lt(user_vmin, actual_min)) =>
              /\ ~Swapped
              /\ \A z \in DOMAIN plots : \A c \in DOMAIN plots[z] :
                    plots[z][c] = grids[z][c]

\* data below zero are plotted with both bounds adjusted: the rounded
\* maximum lies below the actual maximum and the rounded minimum above the
\* actual minimum, and the actual values are taken
C29_Witness ==
    /\ Limited /\ has_values
    /\ gt(user_vmax, actual_max) /\ lt(user_vmin, actual_min)
    /\ lt(actual_max, <<0>>)
    /\ vmax = actual_max /\ vmin = actual_min
    /\ plots # <<>>
    /\ \E z \in DOMAIN plots : \E c \in DOMAIN plots[z] : ~isna(plots[z][c])
====
